---- MODULE Spec2Model ----
(***************************************************************************)
(* Damaged-books service: the inventory change processor, the              *)
(* publish/redirect reconciler, the reconciliation sweep and the HTTP      *)
(* boundary in front of them, as a state machine over the inventory        *)
(* ledger and the platform's publish flags and redirects.                  *)
(*                                                                         *)
(* Conventions.  An optional value is a sequence: <<>> is Python's None,   *)
(* <<v>> is the value v.  A handle is the sequence of its hyphen-separated *)
(* tokens ("book-damaged" is <<"book", "damaged">>).  A handler is one     *)
(* action; its body is an operator that takes the world record w (ledger,  *)
(* platform state and the effects issued so far) and returns the world it  *)
(* leaves.  Every gateway or ledger call can fail: the set env.fail names  *)
(* the calls that fail in one invocation.                                  *)
(***************************************************************************)
EXTENDS Integers, Sequences, FiniteSets, TLC

VARIABLES
    ledger,          \* damaged.inventory: the rows of the products of Catalog
    otherRows,       \* number of ledger rows that belong to products outside Catalog
    catalog,         \* platform: the ids of the products that exist
    published,       \* platform: product id -> published_at is set
    redirects,       \* platform: set of [id, path, target]
    nextRedirectId,  \* platform: id the next created redirect receives
    metafield,       \* platform: product id -> custom.canonical_handle (optional)
    last             \* what the last handler invocation did and answered

vars == <<ledger, otherRows, catalog, published, redirects, nextRedirectId, metafield,
          last>>

(***************************************************************************)
(* Bounds of the model                                                     *)
(***************************************************************************)
MaxRedirects == 2     \* redirects the platform creates in one behaviour
MaxEntries == 2       \* entries of one bulk-create batch
MaxInFlight == 2      \* invocations in flight at the same time

(***************************************************************************)
(* Program constants                                                       *)
(***************************************************************************)
ViewLimit == 2000       \* list_view(limit=2000, ...)
RetryAttempts == 3      \* ShopifyClient._request: for attempt in range(3)
BatchLimit == 200       \* reconcile_damaged_inventory(batch_limit=200)

(***************************************************************************)
(* Optional values, dictionaries                                           *)
(***************************************************************************)
NoneV == <<>>
Some(v) == <<v>>

\* dict.get(key, default)
Get(d, key, default) == IF key \in DOMAIN d THEN d[key] ELSE default

Min(a, b) == IF a < b THEN a ELSE b

(***************************************************************************)
(* The catalog the model runs against                                      *)
(***************************************************************************)
\* product id -> handle; 1 and 3 are damaged companions, 2 is the canonical of 1
Catalog == (1 :> <<"book", "damaged">>) @@ (2 :> <<"book">>) @@ (3 :> <<"atlas", "damaged">>)
           @@ (4 :> <<"book", "1">>) @@ (5 :> <<"book", "club">>)
           @@ (6 :> <<"book", "damaged", "1">>)
Products == DOMAIN Catalog

\* inventory item id -> [product, variant]
Variants == (11 :> [product |-> 1, variant |-> 101])
         @@ (12 :> [product |-> 1, variant |-> 102])
         @@ (21 :> [product |-> 2, variant |-> 201])
         @@ (31 :> [product |-> 3, variant |-> 301])
Items == DOMAIN Variants

\* quantities the platform reports for an inventory level
Levels == {0, 2}
\* available_hint values a caller may pass
Hints == {NoneV, Some(-1), Some(1)}

(***************************************************************************)
(* Strings                                                                 *)
(***************************************************************************)
\* str.lower() on one token
LowerToken(t) ==
    CASE t = "Book" -> "book"
      [] t = "Damaged" -> "damaged"
      [] t = "Damage" -> "damage"
      [] t = "Condition" -> "condition"
      [] t = "Light" -> "light"
      [] t = "Moderate" -> "moderate"
      [] t = "Heavy" -> "heavy"
      [] OTHER -> t

\* str.lower() on a handle
Lower(h) == [i \in DOMAIN h |-> LowerToken(h[i])]

\* the suffix test written as a test that the handle is not empty
NonEmptyHandle(h) == Len(h) >= 1

\* handle.endswith("-damaged")
EndsWithDamaged(h) == Len(h) >= 2 /\ h[Len(h)] = "damaged"

\* handle.removesuffix("-damaged") / handle[:-len("-damaged")]
StripDamaged(h) == IF EndsWithDamaged(h) THEN SubSeq(h, 1, Len(h) - 1) ELSE h

\* str.replace(" ", "_") on a lower-cased value: its words become one token
Underscored(words) ==
    CASE words = <<"light", "damage">> -> <<"light_damage">>
      [] words = <<"moderate", "damage">> -> <<"moderate_damage">>
      [] words = <<"heavy", "damage">> -> <<"heavy_damage">>
      [] OTHER -> words

\* f"/products/{handle}"
ProductPath(h) == <<"products", h>>

(***************************************************************************)
(* services/shopify_client.py                                              *)
(***************************************************************************)
EmptyDict == <<>>

\* ShopifyClient._request: the envelope every REST call returns on success
Envelope(body) == [status |-> 200, body |-> body, headers |-> EmptyDict]

\* the redirects of a set, in id order (the platform's listing order)
RECURSIVE SortById(_)
SortById(S) ==
    IF S = {} THEN <<>>
    ELSE LET r == CHOOSE x \in S : \A y \in S : x.id <= y.id
         IN <<r>> \o SortById(S \ {r})

\* GET redirects.json?path=...
GetRedirects(w, path) ==
    Envelope([redirects |-> SortById({r \in w.redirects : r.path = path})])

\* POST graphql.json: ShopifyClient.graph returns resp.json(), the GraphQL
\* document itself, with the keys the platform gives it
GraphQLResponse(item, level) ==
    [data |->
        [productVariant |->
            [id |-> Variants[item].variant,
             sku |-> Some("sku"),
             barcode |-> Some("barcode"),
             title |-> <<"Light", "Damage">>,
             selectedOptions |-> <<[name |-> <<"Condition">>, value |-> <<"Light", "Damage">>]>>,
             product |-> [id |-> Variants[item].product,
                          handle |-> Catalog[Variants[item].product]]],
         inventoryLevels |->
            [inventoryLevels |-> [edges |-> <<[node |-> [available |-> level]]>>]]]]

\* the keyword arguments set_product_metafield(self, product_id, canonical_handle) binds
set_product_metafield_params == {"product_id", "canonical_handle"}
\* the positional parameters get_product_metafield(self, product_gid, namespace, key) needs
get_product_metafield_params == <<"product_gid", "namespace", "key">>

(***************************************************************************)
(* The effects one invocation issues, in order                             *)
(***************************************************************************)
Emit(w, e) == [w EXCEPT !.trace = Append(@, e)]

(***************************************************************************)
(* services/redirect_service.py                                            *)
(***************************************************************************)
\* returns the optional redirect; a failed GET is caught and gives None
find_redirect_by_path(w, path, ok) ==
    IF ~ok THEN NoneV
    ELSE LET response == GetRedirects(w, ProductPath(path))
             found == Get(response, "redirects", <<>>)
         IN IF found = <<>> THEN NoneV ELSE Some(found[1])

\* returns [w, value]: the POST creates the redirect on the platform when it
\* succeeds; the value is response.get("redirect")
create_redirect(w, used_book_path, target_path, ok) ==
    LET new == [id |-> w.nextRedirectId,
                path |-> ProductPath(used_book_path),
                target |-> ProductPath(target_path)]
        w1 == Emit(w, [call |-> "post_redirect", path |-> used_book_path,
                       target |-> target_path, ok |-> ok])
    IN IF ~ok THEN [w |-> w1, value |-> NoneV]
       ELSE LET response == Envelope([redirect |-> new])
            IN [w |-> [w1 EXCEPT !.redirects = @ \cup {new},
                                 !.nextRedirectId = @ + 1],
                value |-> Get(response, "redirect", NoneV)]

\* returns [w, value]: value is True when the DELETE went through
delete_redirect(w, redirect_id, ok) ==
    IF redirect_id = NoneV THEN [w |-> w, value |-> FALSE]
    ELSE LET w1 == Emit(w, [call |-> "delete_redirect", id |-> redirect_id[1], ok |-> ok])
         IN IF ~ok THEN [w |-> w1, value |-> FALSE]
            ELSE [w |-> [w1 EXCEPT !.redirects = {r \in @ : r.id # redirect_id[1]}],
                  value |-> TRUE]

(***************************************************************************)
(* services/notification_service.py                                        *)
(***************************************************************************)
notify(w, level, title, handle) ==
    Emit(w, [call |-> "notify", level |-> level, title |-> title, handle |-> handle])

notify_critical_error(w, product_id) ==
    Emit(w, [call |-> "notify_critical_error", productId |-> product_id,
             context |-> "Inventory change processing"])

(***************************************************************************)
(* services/product_service.py                                             *)
(***************************************************************************)
ConditionTokens == {"light", "moderate", "mod", "heavy"}
LegacyTokens == {"hurt", "used", "damaged", "damage"}

\* the regular expressions' "(?P<base>.+)": at least one character
NonEmptyBase(b) == b # <<>> /\ b # <<"">>

\* returns [base, condition]
parse_damaged_handle(handle) ==
    LET h == Lower(handle)
        n == Len(h)
    IN IF n >= 3 /\ h[n] \in ConditionTokens /\ h[n - 1] \in LegacyTokens
            /\ NonEmptyBase(SubSeq(h, 1, n - 2))
       THEN [base |-> SubSeq(h, 1, n - 2), condition |-> Some(h[n])]
       ELSE IF n >= 3 /\ h[n] = "damage" /\ h[n - 1] \in ConditionTokens
            /\ NonEmptyBase(SubSeq(h, 1, n - 2))
       THEN [base |-> SubSeq(h, 1, n - 2), condition |-> Some(h[n - 1])]
       ELSE [base |-> handle, condition |-> NoneV]

get_new_book_handle_from_used(used_handle) == parse_damaged_handle(used_handle).base

\* returns [raised, value]: GET products/{id}.json; the platform answers 404
\* for an id it does not know and the client raises on it
get_product_by_id(w, product_id, ok) ==
    IF ~ok \/ product_id \notin w.catalog THEN [raised |-> TRUE, value |-> NoneV]
    ELSE LET response == Envelope([product |-> [id |-> product_id,
                                                handle |-> Catalog[product_id]]])
             body == Get(response, "body", EmptyDict)
         IN [raised |-> FALSE,
             value |-> IF "product" \in DOMAIN body THEN Some(body["product"]) ELSE NoneV]

\* returns [w, raised]: PUT products/{id}.json with published_at
set_product_publish_status(w, product_id, should_publish, ok) ==
    LET w1 == Emit(w, [call |-> "put_publish", product |-> product_id,
                       value |-> should_publish, ok |-> ok])
    IN IF ~ok \/ product_id \notin w.catalog THEN [w |-> w1, raised |-> TRUE]
       ELSE [w |-> [w1 EXCEPT !.published[product_id] = should_publish],
             raised |-> FALSE]

(***************************************************************************)
(* services/inventory_service.py                                           *)
(***************************************************************************)
\* "damage" in s.lower(), s a sequence of words
ContainsDamage(words) ==
    \E i \in DOMAIN words : LowerToken(words[i]) \in {"damage", "damaged"}

RECURSIVE FirstConditionOption(_)
\* the loop over selectedOptions: the first option that names a condition
FirstConditionOption(opts) ==
    IF opts = <<>> THEN NoneV
    ELSE LET opt == Head(opts)
             name == Lower(Get(opt, "name", <<>>))
             val == Get(opt, "value", <<>>)
         IN IF name = <<"condition">> \/ ContainsDamage(name) \/ ContainsDamage(val)
            THEN Some(val)
            ELSE FirstConditionOption(Tail(opts))

\* returns the optional condition string
extract_condition_from_variant(variant) ==
    LET byOption == FirstConditionOption(Get(variant, "selectedOptions", <<>>))
        legacy == {k \in {"option1", "option2", "option3"} :
                      k \in DOMAIN variant /\ ContainsDamage(variant[k])}
        title == Get(variant, "title", <<>>)
    IN IF byOption # NoneV THEN byOption
       ELSE IF "option1" \in legacy THEN Some(variant["option1"])
       ELSE IF "option2" \in legacy THEN Some(variant["option2"])
       ELSE IF "option3" \in legacy THEN Some(variant["option3"])
       ELSE IF ContainsDamage(title) THEN Some(title)
       ELSE NoneV

\* the inventory_levels.json fallback; any failure is caught and means "not in stock"
is_variant_in_stock(level, ok) ==
    IF ~ok THEN FALSE
    ELSE LET resp == Envelope([inventory_levels |-> <<[available |-> level]>>])
             levels == Get(Get(resp, "body", EmptyDict), "inventory_levels", <<>>)
         IN (IF levels = <<>> THEN 0 ELSE levels[1].available) > 0

\* returns [raised, available, variant]
resolve_by_inventory_item_id(inventory_item_id, level, ok) ==
    IF ~ok THEN [raised |-> TRUE, available |-> 0, variant |-> EmptyDict]
    ELSE LET resp == GraphQLResponse(inventory_item_id, level)
             data == Get(Get(resp, "body", EmptyDict), "data", EmptyDict)
             variant == Get(data, "productVariant", EmptyDict)
             edges == Get(Get(Get(data, "inventoryLevels", EmptyDict),
                              "inventoryLevels", EmptyDict), "edges", <<>>)
             available == IF edges = <<>> THEN 0 ELSE edges[1].node.available
         IN [raised |-> FALSE,
             available |-> available,
             variant |-> [c \in DOMAIN variant \cup {"condition"} |->
                             IF c = "condition"
                             THEN extract_condition_from_variant(variant)
                             ELSE variant[c]]]

(***************************************************************************)
(* services/seo_service.py                                                 *)
(***************************************************************************)
\* the call set_product_metafield(product_id, namespace=..., key=..., value=...)
\* inside its try block: returns [w, written]; keywords the method does not
\* have make the call raise TypeError, which the except clause catches
write_canonical_metafield(w, product_id, canonical_handle) ==
    IF {"namespace", "key", "value"} \subseteq set_product_metafield_params
    THEN [w |-> [Emit(w, [call |-> "set_metafield", product |-> product_id,
                          value |-> canonical_handle])
                    EXCEPT !.metafield[product_id] = Some(canonical_handle)],
          written |-> TRUE]
    ELSE [w |-> w, written |-> FALSE]

\* returns [w, raised, value]; value is the dict the function returns
update_used_book_canonicals(w, product, new_book_handle, okFind) ==
    IF "id" \notin DOMAIN product
    THEN [w |-> w, raised |-> TRUE, value |-> EmptyDict]
    ELSE
    LET product_id == product["id"]
        handle == new_book_handle
        redirect == find_redirect_by_path(w, handle, okFind)
        base_handle == StripDamaged(handle)
        \* get_product_metafield(product_id, 'canonical_handle'): two positional arguments
        lookupRaises == Len(<<"product_id", "canonical_handle">>) < Len(get_product_metafield_params)
    IN IF redirect # NoneV
       THEN LET m == write_canonical_metafield(w, product_id, redirect[1].target)
            IN [w |-> m.w, raised |-> FALSE,
                value |-> [resolution |-> "redirect", written |-> m.written]]
       ELSE IF EndsWithDamaged(handle) /\ base_handle # <<>> /\ base_handle # <<"">>
       THEN LET m == write_canonical_metafield(w, product_id, base_handle)
            IN [w |-> m.w, raised |-> FALSE,
                value |-> [resolution |-> "handle_match", written |-> m.written]]
       ELSE IF ~lookupRaises /\ w.metafield[product_id] # NoneV
       THEN LET m == write_canonical_metafield(w, product_id, w.metafield[product_id][1])
            IN [w |-> m.w, raised |-> FALSE,
                value |-> [resolution |-> "metafield", written |-> m.written]]
       ELSE [w |-> w, raised |-> FALSE,
             value |-> [resolution |-> "failed", written |-> FALSE]]

\* the resolver without its try blocks: a failed lookup ends the resolution
resolve_canonical_unguarded(w, damaged_handle, okFind, okGet) ==
    [raised |-> ~okFind \/ ~okGet, value |-> StripDamaged(damaged_handle)]

\* returns [raised, value]: the canonical handle of a damaged handle
resolve_canonical_handle(w, damaged_handle, okFind, okGet) ==
    LET stripped == IF EndsWithDamaged(damaged_handle)
                    THEN SubSeq(damaged_handle, 1, Len(damaged_handle) - 1)
                    ELSE damaged_handle
        redirect == find_redirect_by_path(w, stripped, okFind)
        \* shopify_client.get(f"/products/{stripped}.json"), then response.get("product")
        response == IF okGet THEN Envelope([product |-> [handle |-> stripped]])
                    ELSE EmptyDict
    IN IF redirect # NoneV /\ "target" \in DOMAIN redirect[1] /\ redirect[1].target # <<>>
       THEN [raised |-> FALSE, value |-> redirect[1].target]
       ELSE IF Get(response, "product", NoneV) # NoneV
       THEN [raised |-> FALSE, value |-> stripped]
       ELSE [raised |-> FALSE, value |-> stripped]

(***************************************************************************)
(* services/damaged_inventory_repo.py and the ledger behind it             *)
(***************************************************************************)
\* the stored procedure damaged.damaged_upsert_inventory: insert the row, or
\* replace the row that has the same inventory_item_id
damaged_upsert_inventory(rows, params) ==
    {r \in rows : r.inventory_item_id # params.inventory_item_id} \cup {params}

\* the call with variant_id passed where inventory_item_id belongs
upsert_by_variant(w, args, ok) ==
    IF ~ok THEN [w |-> w, raised |-> TRUE]
    ELSE [w |-> [w EXCEPT !.ledger = damaged_upsert_inventory(
                                          @, [inventory_item_id |-> args.variant_id,
                                              product_id |-> args.product_id,
                                              variant_id |-> args.variant_id,
                                              handle |-> args.handle,
                                              condition |-> args.condition_key,
                                              condition_raw |-> args.condition_raw,
                                              condition_key |-> args.condition_key,
                                              available |-> args.available,
                                              source |-> args.source])],
          raised |-> FALSE]

\* returns [w, raised]; args holds the keyword arguments of the call
upsert(w, args, ok) ==
    LET params == [inventory_item_id |-> args.inventory_item_id,
                   product_id |-> args.product_id,
                   variant_id |-> args.variant_id,
                   handle |-> args.handle,
                   condition |-> args.condition_key,
                   condition_raw |-> args.condition_raw,
                   condition_key |-> args.condition_key,
                   available |-> args.available,
                   source |-> args.source]
        w1 == Emit(w, [call |-> "upsert", item |-> args.inventory_item_id,
                       product |-> args.product_id, handle |-> args.handle,
                       available |-> args.available, source |-> args.source, ok |-> ok])
    IN IF ~ok THEN [w |-> w1, raised |-> TRUE]
       ELSE [w |-> [w1 EXCEPT !.ledger = damaged_upsert_inventory(@, params)],
             raised |-> FALSE]

\* the rows a query with .limit(limit) leaves out are the database's choice:
\* drop names the tracked items whose rows it leaves out
ValidDrop(w, limit, drop) ==
    LET total == Cardinality(w.ledger) + w.otherRows
        kept == Cardinality(w.ledger) - Cardinality(drop)
        others == Min(total, limit) - kept
    IN /\ drop \subseteq {r.inventory_item_id : r \in w.ledger}
       /\ others >= 0
       /\ others <= w.otherRows

\* returns [raised, data, others]: data holds the returned rows of tracked
\* products, others counts the returned rows of the other products
list_view(w, limit, in_stock, drop, ok) ==
    IF ~ok THEN [raised |-> TRUE, data |-> {}, others |-> 0]
    ELSE LET kept == {r \in w.ledger : r.inventory_item_id \notin drop}
         IN [raised |-> FALSE,
             data |-> IF in_stock = Some(TRUE) THEN {r \in kept : r.available > 0}
                      ELSE IF in_stock = Some(FALSE) THEN {r \in kept : r.available = 0}
                      ELSE kept,
             others |-> Min(Cardinality(w.ledger) + w.otherRows, limit) - Cardinality(kept)]

(***************************************************************************)
(* services/used_book_manager.py                                           *)
(***************************************************************************)
\* the calls of one invocation whose failure env.fail can name (a failed
\* redirect lookup returns None, as a lookup that succeeds does)
ProcessorCalls == {"get_product", "levels", "put", "post", "delete", "graphql", "upsert"}
ReconcilerCalls == {"r_list", "r_put", "r_post", "r_delete"}

\* "remove redirect if present" (lines 31-40 and 102-111): returns the world
remove_redirect_if_present(w, handle, existing, okDelete) ==
    IF existing = NoneV THEN w
    ELSE LET deleted == delete_redirect(w, Some(existing[1].id), okDelete)
         IN IF deleted.value # TRUE
            THEN notify(deleted.w, "warning", "Redirect Removal Failed", handle)
            ELSE deleted.w

\* the creation branch without its warning
create_redirect_unnotified(w, handle, target, existing, okPost) ==
    IF existing # NoneV THEN w
    ELSE create_redirect(w, handle, target, okPost).w

\* "create redirect if missing" (lines 44-55 and 118-130): returns the world
create_redirect_if_missing(w, handle, target, existing, okPost) ==
    IF existing # NoneV THEN w
    ELSE LET created == create_redirect(w, handle, target, okPost)
         IN IF created.value = NoneV
            THEN notify(created.w, "warning", "Redirect Creation Failed", handle)
            ELSE created.w

\* the try block of apply_product_rules_with_product: returns [w, raised]
apply_product_rules_body(w, product_id, damaged_handle, canonical_handle, fail, drop) ==
    LET any_in_stock(rows_resp) ==
            \E r \in {x \in rows_resp.data : Lower(x.handle) = Lower(damaged_handle)} :
                r.available > 0
        with_canon(canon) == [w |-> canon.w, raised |-> canon.raised]
        with_existing(w1, in_stock, existing) ==
            with_canon(update_used_book_canonicals(
                IF in_stock
                THEN remove_redirect_if_present(w1, damaged_handle, existing,
                                                "r_delete" \notin fail)
                ELSE create_redirect_if_missing(w1, damaged_handle, canonical_handle,
                                                existing, "r_post" \notin fail),
                [handle |-> damaged_handle], canonical_handle, TRUE))
        with_pub(pub, in_stock) ==
            IF pub.raised THEN [w |-> pub.w, raised |-> TRUE]
            ELSE with_existing(pub.w, in_stock,
                               find_redirect_by_path(pub.w, damaged_handle,
                                                     "r_find" \notin fail))
        with_stock(in_stock) ==
            with_pub(set_product_publish_status(w, product_id, in_stock,
                                                "r_put" \notin fail),
                     in_stock)
        with_rows(rows_resp) ==
            IF rows_resp.raised THEN [w |-> w, raised |-> TRUE]
            ELSE with_stock(any_in_stock(rows_resp))
    IN with_rows(list_view(w, ViewLimit, NoneV, drop, "r_list" \notin fail))

\* returns [w, raised]: "except Exception" logs and swallows whatever the body
\* raised.  The invocation is recorded in w.recons.
apply_product_rules_with_product(w, product_id, damaged_handle, canonical_handle, fail, drop) ==
    LET record(body) ==
            [product_id |-> product_id,
             handle |-> damaged_handle,
             canonical |-> canonical_handle,
             listed |-> "r_list" \notin fail,
             rows |-> {r \in w.ledger : r.handle = damaged_handle},
             clean |-> fail = {},
             before |-> {r \in w.redirects : r.path = ProductPath(damaged_handle)},
             at |-> Len(w.trace),
             effects |-> SubSeq(body.w.trace, Len(w.trace) + 1, Len(body.w.trace)),
             raised |-> FALSE]
        swallow(body) == [w |-> [body.w EXCEPT !.recons = Append(@, record(body))],
                          raised |-> FALSE]
    IN swallow(apply_product_rules_body(w, product_id, damaged_handle, canonical_handle,
                                        fail, drop))

NoResult == [skipped |-> "", handle |-> <<>>, inStock |-> FALSE, action |-> "",
             canonicalSet |-> FALSE]

\* process_inventory_change at line 161, the rules not yet applied
rules_pending(w, product_id, damaged_handle, canonical_handle, fail, drop) ==
    [w |-> w, raised |-> FALSE]

\* the try block of process_inventory_change, run to its end (apply) or to
\* the call of line 161: returns [w, raised, result, valid];
\* env = [fail, level, location, drop]; valid says that env.drop is a choice
\* the ledger read of this invocation can make
process_inventory_steps(w, inventory_item_id, variant_id, product_id, available_hint, env, apply) ==
    LET raise(w1, valid) == [w |-> w1, raised |-> TRUE, result |-> NoResult,
                             valid |-> valid]
        skip(reason, handle) ==
            [w |-> w, raised |-> FALSE,
             result |-> [NoResult EXCEPT !.skipped = reason, !.handle = handle],
             valid |-> env.drop = {}]
        with_rules(handle, is_in_stock, canon, up, ruled) ==
            IF ruled.raised THEN raise(ruled.w, ValidDrop(up.w, ViewLimit, env.drop))
            ELSE [w |-> ruled.w, raised |-> FALSE,
                  result |-> [skipped |-> "", handle |-> handle, inStock |-> is_in_stock,
                              action |-> IF is_in_stock THEN "published" ELSE "unpublished",
                              canonicalSet |-> DOMAIN canon.value # {}],
                  valid |-> ValidDrop(up.w, ViewLimit, env.drop)]
        with_up(handle, is_in_stock, canon, up) ==
            IF up.raised THEN raise(up.w, env.drop = {})
            ELSE with_rules(handle, is_in_stock, canon, up,
                            IF apply
                            THEN apply_product_rules_with_product(
                                     up.w, product_id, handle,
                                     get_new_book_handle_from_used(handle), env.fail,
                                     env.drop)
                            ELSE rules_pending(
                                     up.w, product_id, handle,
                                     get_new_book_handle_from_used(handle), env.fail,
                                     env.drop))
        with_variant(product, handle, is_in_stock, canon, moved, variant_data) ==
            with_up(handle, is_in_stock, canon,
                    upsert(moved,
                           [inventory_item_id |-> inventory_item_id,
                            product_id |-> product_id,
                            variant_id |-> variant_id,
                            handle |-> product.handle,
                            condition |-> IF variant_data = NoneV THEN NoneV
                                          ELSE Get(variant_data[1], "condition", NoneV),
                            condition_raw |-> NoneV,
                            condition_key |-> NoneV,
                            available |-> IF available_hint # NoneV THEN available_hint[1]
                                          ELSE IF is_in_stock THEN 1 ELSE 0,
                            source |-> "webhook"],
                           "upsert" \notin env.fail))
        with_res(product, handle, is_in_stock, canon, moved, res) ==
            with_variant(product, handle, is_in_stock, canon,
                         IF env.location
                         THEN Emit(moved, [call |-> "graphql", item |-> inventory_item_id,
                                           ok |-> ~res.raised])
                         ELSE moved,
                         IF env.location /\ ~res.raised THEN Some(res.variant) ELSE NoneV)
        with_existing(product, handle, is_in_stock, new_book_handle, canon, w1, existing) ==
            with_res(product, handle, is_in_stock, canon,
                     IF is_in_stock
                     THEN remove_redirect_if_present(w1, handle, existing,
                                                     "delete" \notin env.fail)
                     ELSE create_redirect_if_missing(w1, handle, new_book_handle, existing,
                                                     "post" \notin env.fail),
                     resolve_by_inventory_item_id(inventory_item_id, env.level,
                                                  "graphql" \notin env.fail))
        with_pub(product, handle, is_in_stock, new_book_handle, canon, pub) ==
            IF pub.raised THEN raise(pub.w, env.drop = {})
            ELSE with_existing(product, handle, is_in_stock, new_book_handle, canon, pub.w,
                               find_redirect_by_path(pub.w, handle, "find" \notin env.fail))
        with_canon(product, handle, is_in_stock, new_book_handle, canon) ==
            IF canon.raised THEN raise(canon.w, env.drop = {})
            ELSE with_pub(product, handle, is_in_stock, new_book_handle, canon,
                          set_product_publish_status(canon.w, product_id, is_in_stock,
                                                     "put" \notin env.fail))
        with_stock(product, handle, is_in_stock, new_book_handle) ==
            with_canon(product, handle, is_in_stock, new_book_handle,
                       update_used_book_canonicals(w, product, new_book_handle, TRUE))
        with_handle(product, handle) ==
            IF ~EndsWithDamaged(handle) THEN skip("not_damaged", handle)
            ELSE with_stock(product, handle,
                            IF available_hint # NoneV THEN available_hint[1] > 0
                            ELSE is_variant_in_stock(env.level, "levels" \notin env.fail),
                            get_new_book_handle_from_used(handle))
        with_product(got) ==
            IF got.raised THEN raise(w, env.drop = {})
            ELSE IF got.value = NoneV THEN skip("product_not_found", <<>>)
            ELSE with_handle(got.value[1], Lower(got.value[1].handle))
    IN with_product(get_product_by_id(w, product_id, "get_product" \notin env.fail))

\* the try block of process_inventory_change (lines 63-169)
process_inventory_body(w, inventory_item_id, variant_id, product_id, available_hint, env) ==
    process_inventory_steps(w, inventory_item_id, variant_id, product_id, available_hint,
                            env, TRUE)

\* the processor without its top-level handler: the error travels unreported
process_inventory_unreported(w, inventory_item_id, variant_id, product_id, available_hint, env) ==
    process_inventory_body(w, inventory_item_id, variant_id, product_id, available_hint, env)

\* returns [w, raised, result, valid]: "except Exception" reports the error to
\* the notification service and raises it again
process_inventory_change(w, inventory_item_id, variant_id, product_id, available_hint, env) ==
    LET reraise(body) ==
            IF body.raised
            THEN [body EXCEPT !.w = notify_critical_error(body.w, product_id)]
            ELSE body
    IN reraise(process_inventory_body(w, inventory_item_id, variant_id, product_id,
                                      available_hint, env))

(***************************************************************************)
(* backend/app/routes.py                                                   *)
(***************************************************************************)
\* base64(HMAC-SHA256(secret, body)): equal digests come from equal inputs
Digest(secret, body) == <<"hmac-sha256", secret, body>>

verify_shopify_hmac(hmac_header, body, secret) == Digest(secret, body) = hmac_header

\* Python truthiness of an optional id ("not all([...])")
Truthy(v) == v # NoneV /\ v[1] # 0

\* returns [w, status, verified, processed, raised, result, valid];
\* request = [hmac, body], body = [json, inventory_item_id, variant_id,
\* product_id]; secret is the optional SHOPIFY_WEBHOOK_SECRET
handle_inventory_webhook(w, request, secret, env) ==
    LET raw_body == request.body
        hmac_header == request.hmac
        data == raw_body
        answer(run) ==
            [w |-> run.w, status |-> IF run.raised THEN 500 ELSE 200, verified |-> TRUE,
             processed |-> TRUE, raised |-> run.raised, result |-> run.result,
             valid |-> run.valid]
        refuse(code, verified) ==
            [w |-> w, status |-> code, verified |-> verified, processed |-> FALSE,
             raised |-> FALSE, result |-> NoResult, valid |-> TRUE]
    IN IF hmac_header = NoneV \/ hmac_header = Some(<<>>) THEN refuse(400, FALSE)
       ELSE IF secret = NoneV THEN refuse(500, FALSE)
       ELSE IF ~verify_shopify_hmac(hmac_header[1], raw_body, secret[1])
       THEN refuse(401, FALSE)
       ELSE IF ~raw_body.json THEN refuse(400, TRUE)
       ELSE IF ~(Truthy(data.inventory_item_id) /\ Truthy(data.variant_id)
                 /\ Truthy(data.product_id)) THEN refuse(400, TRUE)
       ELSE answer(process_inventory_change(w, data.inventory_item_id[1],
                                            data.variant_id[1], data.product_id[1],
                                            NoneV, env))

\* POST /api/products/check: returns [w, status, verified, processed, raised,
\* result, valid]; the route reads no signature
check_product(w, req, env) ==
    LET answer(run) ==
            [w |-> run.w, status |-> IF run.raised THEN 500 ELSE 200, verified |-> FALSE,
             processed |-> TRUE, raised |-> run.raised, result |-> run.result,
             valid |-> run.valid]
    IN answer(process_inventory_change(w, req.inventory_item_id, req.variant_id,
                                       req.product_id, NoneV, env))

(***************************************************************************)
(* services/cron_service.py                                                *)
(***************************************************************************)
RECURSIVE sweep_condition(_)
\* the loop over selectedOptions (lines 55-62): returns [raw, key]
sweep_condition(opts) ==
    IF opts = <<>> THEN [raw |-> NoneV, key |-> NoneV]
    ELSE LET option == Head(opts)
             condition_raw == IF "value" \in DOMAIN option THEN Some(option["value"])
                              ELSE NoneV
         IN IF Get(option, "name", <<>>) = <<"Condition">>
            THEN [raw |-> condition_raw,
                  key |-> IF condition_raw # NoneV /\ condition_raw[1] # <<>>
                          THEN Some(Underscored(Lower(condition_raw[1])))
                          ELSE NoneV]
            ELSE sweep_condition(Tail(opts))

\* the items of a set, in increasing order
RECURSIVE Ascending(_)
Ascending(S) ==
    IF S = {} THEN <<>>
    ELSE LET m == CHOOSE x \in S : \A y \in S : x <= y
         IN <<m>> \o Ascending(S \ {m})

RowOf(rows, item) == CHOOSE r \in rows : r.inventory_item_id = item

\* the counters of the loop once a row has been handled, put on record
Counted(a) ==
    [a EXCEPT !.w = Emit(@, [call |-> "counted", inspected |-> a.walked,
                             updated |-> a.updated, skipped |-> a.skipped])]

RECURSIVE reconcile_rows_counting_attempts(_, _, _, _)
\* the loop that counts a row as updated before its upsert has gone through
reconcile_rows_counting_attempts(acc, rows, items, env) ==
    IF items = <<>> THEN acc
    ELSE
    LET r == RowOf(rows, Head(items))
        inv_id == r.inventory_item_id
        with_up(a, up) ==
            IF up.raised THEN [a EXCEPT !.w = up.w, !.skipped = @ + 1]
            ELSE [a EXCEPT !.w = up.w, !.touched = @ \cup {<<r.product_id, r.handle>>}]
        asked == [acc EXCEPT !.walked = @ + 1, !.updated = @ + 1,
                             !.w = Emit(@, [call |-> "graphql", item |-> inv_id,
                                            ok |-> TRUE])]
    IN reconcile_rows_counting_attempts(
           Counted(with_up(asked,
                           upsert(asked.w, [r EXCEPT !.available = env.level,
                                                     !.source = "reconcile"],
                                  inv_id \notin env.badUpsert))),
           rows, Tail(items), env)

RECURSIVE reconcile_rows(_, _, _, _)
\* the loop over the batch (lines 37-85): acc = [w, updated, skipped, touched,
\* walked, raised]; rows is the batch as read, items the order in which its
\* rows of tracked products are walked; env.malformedAt is the place in that
\* order of a row whose ids do not convert (lines 40-42, outside the try)
reconcile_rows(acc, rows, items, env) ==
    IF acc.walked = env.malformedAt THEN [acc EXCEPT !.raised = TRUE]
    ELSE IF items = <<>> THEN acc
    ELSE
    LET r == RowOf(rows, Head(items))
        inv_id == r.inventory_item_id
        with_up(a, up) ==
            IF up.raised THEN [a EXCEPT !.w = up.w, !.skipped = @ + 1]
            ELSE [a EXCEPT !.w = up.w, !.updated = @ + 1,
                           !.touched = @ \cup {<<r.product_id, r.handle>>}]
        with_cond(a, resp, cond) ==
            with_up(a, upsert(a.w,
                              [inventory_item_id |-> inv_id,
                               product_id |-> r.product_id,
                               variant_id |-> r.variant_id,
                               handle |-> r.handle,
                               condition |-> cond.raw,
                               condition_raw |-> cond.raw,
                               condition_key |-> cond.key,
                               available |-> resp.available,
                               source |-> "reconcile"],
                              inv_id \notin env.badUpsert))
        with_resp(a, resp) ==
            IF resp.raised THEN [a EXCEPT !.skipped = @ + 1]
            ELSE with_cond(a, resp,
                           sweep_condition(Get(resp.variant, "selectedOptions", <<>>)))
        asked == [acc EXCEPT !.walked = @ + 1,
                             !.w = Emit(@, [call |-> "graphql", item |-> inv_id,
                                            ok |-> inv_id \notin env.badResolve])]
    IN reconcile_rows(Counted(with_resp(asked,
                                        resolve_by_inventory_item_id(
                                            inv_id, env.level,
                                            inv_id \notin env.badResolve))),
                      rows, Tail(items), env)

RECURSIVE reconcile_touched(_, _, _)
\* the loop over touched (lines 87-93); pids is the order in which it is walked
reconcile_touched(w, pairs, env) ==
    IF pairs = <<>> THEN w
    ELSE LET pid == Head(pairs)[1]
             handle == Head(pairs)[2]
         IN IF EndsWithDamaged(handle)
            THEN reconcile_touched(
                     apply_product_rules_with_product(w, pid, handle, StripDamaged(handle),
                                                      env.fail, env.drop).w,
                     Tail(pairs), env)
            ELSE reconcile_touched(w, Tail(pairs), env)

\* the touched pairs, by product id
TouchedInOrder(touched) ==
    LET ids == Ascending({p[1] : p \in touched})
    IN [i \in DOMAIN ids |-> CHOOSE p \in touched : p[1] = ids[i]]

NoSummary == [inspected |-> 0, updated |-> 0, skipped |-> 0, note |-> NoneV]

\* a sweep that reads the ledger before it looks at the configuration
reconcile_reading_first(w, batch_limit, env) ==
    [w |-> Emit(w, [call |-> "select_inventory",
                    items |-> {r.inventory_item_id : r \in w.ledger},
                    others |-> Min(w.otherRows, batch_limit)]),
     summary |-> [NoSummary EXCEPT !.note = Some("missing SHOPIFY_LOCATION_ID")],
     raised |-> FALSE,
     valid |-> TRUE]

\* returns [w, summary, raised, valid]; env = [location, fail, level, sweepDrop,
\* badResolve, badUpsert, otherBad, malformedAt, drop]
reconcile_damaged_inventory(w, batch_limit, env) ==
    LET rows == {r \in w.ledger : r.inventory_item_id \notin env.sweepDrop}
        others == Min(Cardinality(w.ledger) + w.otherRows, batch_limit) - Cardinality(rows)
        valid(walked) ==
            /\ ValidDrop(w, batch_limit, env.sweepDrop)
            /\ ValidDrop(walked.w, ViewLimit, env.drop)
            /\ env.otherBad + (IF env.malformedAt >= 0 THEN 1 ELSE 0) <= others
            /\ env.malformedAt <= Cardinality(rows)
            /\ env.badResolve \cup env.badUpsert
                   \subseteq {r.inventory_item_id : r \in rows}
        with_summary(walked, ruled, summary) ==
            [w |-> Emit(ruled, [call |-> "insert_reconcile_log", entry |-> summary,
                                ok |-> "log_insert" \notin env.fail]),
             summary |-> summary,
             raised |-> FALSE,
             valid |-> valid(walked)]
        with_walked(walked) ==
            IF walked.raised
            THEN [w |-> walked.w, summary |-> NoSummary, raised |-> TRUE,
                  valid |-> valid(walked)]
            ELSE with_summary(walked,
                              reconcile_touched(
                                  Emit(walked.w, [call |-> "upsert_others",
                                                  updated |-> others - env.otherBad,
                                                  skipped |-> env.otherBad,
                                                  source |-> "reconcile"]),
                                  TouchedInOrder(walked.touched), env),
                              [inspected |-> Cardinality(rows) + others,
                               updated |-> walked.updated + (others - env.otherBad),
                               skipped |-> walked.skipped + env.otherBad,
                               note |-> NoneV])
    IN IF ~env.location
       THEN [w |-> w,
             summary |-> [NoSummary EXCEPT !.note = Some("missing SHOPIFY_LOCATION_ID")],
             raised |-> FALSE,
             valid |-> TRUE]
       ELSE with_walked(reconcile_rows(
                [w |-> Emit(w, [call |-> "select_inventory",
                                items |-> {r.inventory_item_id : r \in rows},
                                others |-> others]),
                 updated |-> 0, skipped |-> 0, touched |-> {}, walked |-> 0,
                 raised |-> FALSE],
                rows, Ascending({r.inventory_item_id : r \in rows}), env))

(***************************************************************************)
(* services/product_service.py: duplicate check and creation               *)
(***************************************************************************)
\* h == base or h.startswith(f"{base}-")
HandleMatches(h, base) == Len(h) >= Len(base) /\ SubSeq(h, 1, Len(base)) = base

\* handle ILIKE %sub%, for a lower-case sub
HandleContains(h, sub) ==
    \E i \in 1 .. (Len(h) - Len(sub) + 1) : SubSeq(Lower(h), i, i + Len(sub) - 1) = sub

\* GET products.json?handle=h
ProductsAt(w, h) == {p \in w.catalog : Catalog[p] = h}

\* the first variant of a product of the store: its price in cents, and its
\* sku, which names the product
FirstVariant(p) == [price |-> 2000, sku |-> <<"author", Catalog[p]>>]

\* the first product of a non-empty set, in the platform's listing order
FirstProduct(S) ==
    LET p == CHOOSE x \in S : \A y \in S : x <= y
    IN [id |-> p, handle |-> Catalog[p], variants |-> <<FirstVariant(p)>>]

\* returns the optional product; ok: the gateway answers; scan: the page of
\* 250 products of the fallback holds the products of Catalog
find_existing_by_handle(w, handle, ok, scan) ==
    IF ~ok THEN NoneV
    ELSE
    LET base == Lower(handle)
        suffix_candidates == <<base, base \o <<"1">>, base \o <<"2">>, base \o <<"3">>>>
        products(h) == Get(Get(Envelope([products |-> ProductsAt(w, h)]), "body", EmptyDict),
                           "products", {})
        hits == {i \in DOMAIN suffix_candidates : products(suffix_candidates[i]) # {}}
        all_products == IF scan THEN w.catalog ELSE {}
        fallback == {q \in all_products : HandleMatches(Lower(Catalog[q]), base)}
    IN IF hits # {}
       THEN Some(FirstProduct(products(suffix_candidates[CHOOSE i \in hits :
                                                            \A j \in hits : i <= j])))
       ELSE IF fallback # {} THEN Some(FirstProduct(fallback))
       ELSE NoneV

\* returns the report; env = [fail, scan, location]
check_damaged_duplicate(w, canonical_handle, damaged_handle, env) ==
    LET base_canonical == Lower(canonical_handle)
        base_damaged == Lower(damaged_handle)
        found_canonical == find_existing_by_handle(w, base_canonical,
                                                   "find_canonical" \notin env.fail, env.scan)
        found_damaged == find_existing_by_handle(w, base_damaged,
                                                 "find_damaged" \notin env.fail, env.scan)
        inv == IF "inventory_view" \in env.fail THEN {}
               ELSE {r \in w.ledger : HandleContains(r.handle, base_damaged)}
        report(canonical_missing, damaged_exists, inventory_present) ==
            LET has_conflict == canonical_missing \/ damaged_exists \/ inventory_present
            IN [status |-> IF has_conflict THEN "conflict" ELSE "ok",
                canonical_handle |-> canonical_handle,
                damaged_handle |-> damaged_handle,
                canonical_missing |-> canonical_missing,
                damaged_exists |-> damaged_exists,
                inventory_present |-> inventory_present,
                safe_to_create |-> ~has_conflict]
    IN report(found_canonical = NoneV, found_damaged # NoneV, inv # {})

ConditionTitles == <<<<"Light", "Damage">>, <<"Moderate", "Damage">>, <<"Heavy", "Damage">>>>

\* returns the optional condition key of a variant title
normalize_condition_from_title(title) ==
    LET t == {Lower(title)[i] : i \in DOMAIN title}
    IN IF "light" \in t THEN Some("light")
       ELSE IF "moderate" \in t \/ "mod" \in t THEN Some("moderate")
       ELSE IF "heavy" \in t THEN Some("heavy")
       ELSE NoneV

\* the id the platform gives the product posted with a handle: the handle
\* itself when it is free, else its first free auto-suffix
NewProductId(w, handle) ==
    LET free(h) == {p \in Products \ w.catalog : Catalog[p] = h}
    IN IF ProductsAt(w, handle) = {} THEN free(handle) ELSE free(handle \o <<"1">>)

\* handle.strip().lower().replace("-", "_"), then f"{base}_{condition_key}":
\* the words of a barcode, which underscores join
make_barcode_for_condition(canonical_handle, condition_key) ==
    [joined |-> "_", words |-> Lower(canonical_handle) \o <<condition_key>>]

ConditionKeys == <<"light", "moderate", "heavy">>

\* CONDITION_META[cond_key]["default_discount"], in percent
DefaultDiscount(cond_key) ==
    CASE cond_key = "light" -> 15
      [] cond_key = "moderate" -> 30
      [] cond_key = "heavy" -> 60

\* the name canonical_price of compute_price_for_condition: create_damaged_pair
\* binds canonical_price_raw only, so the name is unbound when it is read
canonical_price == NoneV

\* seed_by_condition: the optional seed of a key; the last seed of the key wins
SeedOf(seeds, cond_key) ==
    LET hits == {i \in DOMAIN seeds : LowerToken(seeds[i].condition) = cond_key}
    IN IF hits = {} THEN NoneV
       ELSE Some(seeds[CHOOSE i \in hits : \A j \in hits : j <= i])

\* the price of one variant, in cents; reading an unbound name raises inside
\* the try, whose handler returns canonical_price_raw
compute_price_for_condition(canonical_price_raw, seeds, cond_key) ==
    LET seed == SeedOf(seeds, cond_key)
        override_pct == IF seed # NoneV THEN seed[1].price_override ELSE NoneV
        pct == IF override_pct # NoneV THEN override_pct[1] ELSE DefaultDiscount(cond_key)
    IN IF canonical_price = NoneV THEN canonical_price_raw
       ELSE (canonical_price[1] * (100 - pct)) \div 100

\* returns [w, raised, damaged, valid]
create_damaged_pair(w, canonical_handle, variants, env) ==
    LET canonical == find_existing_by_handle(w, canonical_handle,
                                             "find_pair" \notin env.fail, env.scan)
        auto_damaged_handle == Lower(canonical_handle) \o <<"damaged">>
        ids == NewProductId(w, auto_damaged_handle)
        raise(w1) == [w |-> w1, raised |-> TRUE, damaged |-> EmptyDict, valid |-> TRUE]
        canonical_variant == canonical[1].variants[1]
        variant_payloads ==
            [i \in DOMAIN ConditionKeys |->
                [title |-> ConditionTitles[i],
                 option1 |-> ConditionTitles[i],
                 sku |-> canonical_variant.sku,
                 barcode |-> make_barcode_for_condition(canonical_handle, ConditionKeys[i]),
                 price |-> compute_price_for_condition(canonical_variant.price, variants,
                                                       ConditionKeys[i]),
                 inventory_management |-> "shopify",
                 inventory_policy |-> "deny"]]
        posted(id) ==
            Emit([w EXCEPT !.catalog = @ \cup {id},
                           !.published = [@ EXCEPT ![id] = FALSE],
                           !.metafield = [@ EXCEPT ![id] = Some(canonical_handle)]],
                 [call |-> "post_product", handle |-> auto_damaged_handle, product |-> id,
                  variants |-> variant_payloads, ok |-> TRUE])
    IN IF canonical = NoneV THEN raise(w)
       ELSE IF "post_product" \in env.fail
       THEN raise(Emit(w, [call |-> "post_product", handle |-> auto_damaged_handle,
                           product |-> 0, variants |-> variant_payloads, ok |-> FALSE]))
       ELSE IF ids = {} THEN [raise(w) EXCEPT !.valid = FALSE]
       ELSE LET id == CHOOSE p \in ids : TRUE
            IN [w |-> posted(id), raised |-> FALSE,
                damaged |-> [id |-> id, handle |-> Catalog[id],
                             variants |-> variant_payloads],
                valid |-> TRUE]

\* creation_log_service.log_creation_event, in the caller's try block
log_creation_event(w, request, result, ok) ==
    Emit(w, [call |-> "insert_creation_log",
             canonical_handle |-> request.canonical_handle,
             damaged_handle |-> result.damaged_handle,
             damaged_product_id |-> result.damaged_product_id,
             dry_run |-> request.dry_run,
             status |-> result.status,
             ok |-> ok])

\* a handler's end whose log write is not in a try block
return_after_log_unguarded(w, data, result, env) ==
    [w |-> log_creation_event(w, data, result, "creation_log" \notin env.fail),
     raised |-> "creation_log" \in env.fail,
     result |-> result, valid |-> TRUE]

\* "try: await log_creation_event(data, result) / except: warning", then
\* "return result"
return_after_log(w, data, result, env) ==
    [w |-> log_creation_event(w, data, result, "creation_log" \notin env.fail),
     raised |-> FALSE, result |-> result, valid |-> TRUE]

RECURSIVE apply_initial_inventory(_, _, _)
\* one inventory_levels/set per variant with a quantity; failures are swallowed
apply_initial_inventory(w, variants, env) ==
    IF ~env.location \/ variants = <<>> THEN w
    ELSE LET v == Head(variants)
         IN apply_initial_inventory(
                IF v.quantity_set <= 0 THEN w
                ELSE Emit(w, [call |-> "inventory_set", condition |-> v.condition,
                              available |-> v.quantity_set,
                              ok |-> "inventory_set" \notin env.fail]),
                Tail(variants), env)

\* the quantity asked for a condition key: the last seed of that key wins
SeedQuantity(seeds, key) ==
    LET hits == {i \in DOMAIN seeds : key # NoneV /\ LowerToken(seeds[i].condition) = key[1]}
    IN IF hits = {} THEN 0
       ELSE seeds[CHOOSE i \in hits : \A j \in hits : j <= i].quantity

\* steps 4 to 8: create, report, set the quantities, log
create_and_report(w, data, env) ==
    LET report(created) ==
            [status |-> "created",
             damaged_product_id |-> Some(created.damaged.id),
             damaged_handle |-> NoneV,
             variants |-> [i \in DOMAIN created.damaged.variants |->
                              [condition |-> created.damaged.variants[i].title,
                               price |-> created.damaged.variants[i].price,
                               sku |-> created.damaged.variants[i].sku,
                               barcode |-> created.damaged.variants[i].barcode,
                               quantity_set |->
                                   SeedQuantity(data.variants,
                                                normalize_condition_from_title(
                                                    created.damaged.variants[i].title))]]]
        finish(created, result) ==
            return_after_log(apply_initial_inventory(created.w, result.variants, env),
                             data, result, env)
        with_created(created) ==
            IF created.raised
            THEN [w |-> created.w, raised |-> TRUE,
                  result |-> [status |-> "", damaged_product_id |-> NoneV,
                              damaged_handle |-> NoneV, variants |-> <<>>],
                  valid |-> created.valid]
            ELSE finish(created, report(created))
    IN with_created(create_damaged_pair(w, data.canonical_handle, data.variants, env))

\* the creation that does not look at the report of the duplicate check
create_unchecked(w, data, env) == create_and_report(w, data, env)

\* the creation that tests the duplicate check but not the dry_run flag
create_when_safe(w, data, env) ==
    LET auto_damaged_handle == Lower(data.canonical_handle) \o <<"damaged">>
        refused == [status |-> "error", damaged_product_id |-> NoneV,
                    damaged_handle |-> Some(auto_damaged_handle), variants |-> <<>>]
        with_dup(dup_result) ==
            IF dup_result.status # "ok" \/ ~dup_result.safe_to_create
            THEN [w |-> log_creation_event(w, data, refused, "creation_log" \notin env.fail),
                  raised |-> FALSE, result |-> refused, valid |-> TRUE]
            ELSE create_and_report(w, data, env)
    IN with_dup(check_damaged_duplicate(w, data.canonical_handle, auto_damaged_handle, env))

\* create_damaged_product_with_duplicate_check at line 328, the check passed
\* and create_damaged_pair not yet called
creation_pending(w, data, env) ==
    [w |-> w, raised |-> FALSE,
     result |-> [status |-> "pending", damaged_product_id |-> NoneV,
                 damaged_handle |-> NoneV, variants |-> <<>>],
     valid |-> TRUE]

\* create_damaged_product_with_duplicate_check, run to its end (create) or
\* to the call of line 328: returns [w, raised, result, valid]
create_after_check(w, data, env, create) ==
    LET auto_damaged_handle == Lower(data.canonical_handle) \o <<"damaged">>
        aborted(status) ==
            [status |-> status, damaged_product_id |-> NoneV,
             damaged_handle |-> Some(auto_damaged_handle), variants |-> <<>>]
        logged(result) == return_after_log(w, data, result, env)
        with_dup(dup_result) ==
            IF dup_result.status # "ok" \/ ~dup_result.safe_to_create
            THEN logged(aborted("error"))
            ELSE IF data.dry_run THEN logged(aborted("dry-run"))
            ELSE IF create THEN create_and_report(w, data, env)
            ELSE creation_pending(w, data, env)
    IN with_dup(check_damaged_duplicate(w, data.canonical_handle, auto_damaged_handle, env))

\* returns [w, raised, result, valid]
create_damaged_product_with_duplicate_check(w, data, env) ==
    create_after_check(w, data, env, TRUE)

(***************************************************************************)
(* backend/app/admin_routes.py                                             *)
(***************************************************************************)
\* the parameters without a default of check_damaged_duplicate and of the
\* BulkCreateRequest model
check_damaged_duplicate_params == {"canonical_handle", "damaged_handle"}
BulkCreateRequest_required == {"canonical_handle", "canonical_title", "damaged_handle",
                               "damaged_title"}

RECURSIVE bulk_phase2(_, _, _)
\* phase 2 (lines 171-240): acc = [w, results, valid]; one creation per entry,
\* whose exception becomes an "error" result and a best-effort log row
bulk_phase2(acc, entries, env) ==
    IF entries = <<>> THEN acc
    ELSE
    LET entry == Head(entries)
        bulk_req == [canonical_handle |-> entry.canonical_handle, variants |-> <<>>,
                     dry_run |-> FALSE]
        error_result == [status |-> "error", damaged_product_id |-> NoneV,
                         damaged_handle |-> Some(entry.damaged_handle), variants |-> <<>>]
        with_created(created) ==
            IF created.raised
            THEN [w |-> log_creation_event(created.w, bulk_req, error_result,
                                           "creation_log" \notin env.fail),
                  results |-> Append(acc.results, [requested |-> entry, status |-> "error"]),
                  valid |-> acc.valid /\ created.valid]
            ELSE [w |-> created.w,
                  results |-> Append(acc.results, [requested |-> entry,
                                                   status |-> created.result.status,
                                                   created |-> created.result]),
                  valid |-> acc.valid /\ created.valid]
    IN bulk_phase2(with_created(create_damaged_product_with_duplicate_check(
                                    acc.w, bulk_req, env)),
                   Tail(entries), env)

\* POST /admin/bulk-create: returns [w, raised, status, body, valid].  Phase 1 calls
\* check_damaged_duplicate(canonical_handle=...) for the first entry; a call
\* that leaves a parameter unbound raises TypeError before the function
\* runs, outside any try block.  Phase 2 builds BulkCreateRequest(
\* canonical_handle, variants, dry_run) outside its try block.
bulk_create(w, entries, env) ==
    LET precheck_kwargs == {"canonical_handle"}
        bulk_req_kwargs == {"canonical_handle", "variants", "dry_run"}
        raise == [w |-> w, raised |-> TRUE, status |-> 500, body |-> EmptyDict,
                  valid |-> TRUE]
        answer(phase2) == [w |-> phase2.w, raised |-> FALSE, status |-> 200,
                           body |-> [results |-> phase2.results], valid |-> phase2.valid]
    IN IF entries = <<>>
       THEN [w |-> w, raised |-> FALSE, status |-> 200, body |-> [results |-> <<>>],
             valid |-> TRUE]
       ELSE IF ~(check_damaged_duplicate_params \subseteq precheck_kwargs) THEN raise
       ELSE IF \E i \in DOMAIN entries :
                 check_damaged_duplicate(w, entries[i].canonical_handle,
                                         entries[i].damaged_handle, env).status
                     # "ok_to_create"
       THEN [w |-> w, raised |-> FALSE, status |-> 409, valid |-> TRUE,
             body |-> [status |-> "conflict",
                       conflicts |-> SelectSeq(entries,
                           LAMBDA e : check_damaged_duplicate(
                                          w, e.canonical_handle, e.damaged_handle,
                                          env).status # "ok_to_create")]]
       ELSE IF ~(BulkCreateRequest_required \subseteq bulk_req_kwargs) THEN raise
       ELSE answer(bulk_phase2([w |-> w, results |-> <<>>, valid |-> TRUE], entries, env))

(***************************************************************************)
(* State machine                                                           *)
(***************************************************************************)
World == [ledger |-> ledger, otherRows |-> otherRows, catalog |-> catalog,
          published |-> published, redirects |-> redirects,
          nextRedirectId |-> nextRedirectId, metafield |-> metafield,
          trace |-> <<>>, recons |-> <<>>]

Commit(w) ==
    /\ ledger' = w.ledger
    /\ otherRows' = w.otherRows
    /\ catalog' = w.catalog
    /\ published' = w.published
    /\ redirects' = w.redirects
    /\ nextRedirectId' = w.nextRedirectId
    /\ metafield' = w.metafield

\* the platform has ids left for the redirects the invocation created
WithinBounds(w) == w.nextRedirectId <= MaxRedirects + 1

ServerSecret == "shpss"
Secrets == {NoneV, Some(ServerSecret)}

BodyFor(item) == [json |-> TRUE,
                  inventory_item_id |-> Some(item),
                  variant_id |-> Some(Variants[item].variant),
                  product_id |-> Some(Variants[item].product)]
Bodies == {BodyFor(i) : i \in Items}
            \cup {[BodyFor(11) EXCEPT !.product_id = NoneV],
                  [json |-> FALSE, inventory_item_id |-> NoneV, variant_id |-> NoneV,
                   product_id |-> NoneV]}
Requests == {[hmac |-> NoneV, body |-> BodyFor(11)], [hmac |-> Some(<<>>), body |-> BodyFor(11)]}
                \cup {[hmac |-> Some(Digest(k, b)), body |-> b] :
                         k \in {ServerSecret, "guess"}, b \in Bodies}

CheckRequests == {[inventory_item_id |-> i, variant_id |-> Variants[i].variant,
                   product_id |-> Variants[i].product] : i \in Items}

\* at most one call fails in one invocation
Failures(calls) == {{}} \cup {{c} : c \in calls}

QuietEnv == [fail |-> {}, level |-> 0, location |-> TRUE, drop |-> {}]

TrackedIds(w) == {r.inventory_item_id : r \in w.ledger}

\* the rows the reconciler's ledger read may leave out while item is processed:
\* only the rows of the item's own product decide anything
DropChoices(w, item) ==
    IF Cardinality(w.ledger) + 1 + w.otherRows <= ViewLimit THEN {{}}
    ELSE SUBSET {i \in TrackedIds(w) \cup {item} :
                    Variants[i].product = Variants[item].product}

\* an unset SHOPIFY_LOCATION_ID leaves variant_data None, as a failed
\* resolution ("graphql") does
ProcessEnvs(w, item, calls, levels) ==
    [fail : Failures(calls), level : levels, location : {TRUE},
     drop : DropChoices(w, item)]

Idle == [op |-> "none", product |-> 0, status |-> 0, verified |-> FALSE,
         processed |-> FALSE, raised |-> FALSE, result |-> NoResult, hint |-> NoneV,
         trace |-> <<>>, recons |-> <<>>, summary |-> NoSummary,
         location |-> TRUE, level |-> 0]

Init ==
    /\ ledger = {}
    /\ otherRows \in {0, ViewLimit}
    /\ catalog = {1, 2}
    /\ published = [p \in Products |-> TRUE]
    /\ redirects = {}
    /\ nextRedirectId = 1
    /\ metafield = [p \in Products |-> NoneV]
    /\ last = Idle

\* the invocation's outcome becomes the new state; entry is what it leaves in last
Done(out, entry) ==
    /\ out.valid
    /\ WithinBounds(out.w)
    /\ Commit(out.w)
    /\ last' = [entry EXCEPT !.trace = out.w.trace, !.recons = out.w.recons]

Answered(op, product, out) ==
    [Idle EXCEPT !.op = op, !.product = product, !.status = out.status,
                 !.verified = out.verified, !.processed = out.processed,
                 !.raised = out.raised, !.result = out.result]

Returned(product, hint, out) ==
    [Idle EXCEPT !.op = "call", !.product = product, !.processed = TRUE,
                 !.raised = out.raised, !.result = out.result, !.hint = hint]

Swept(out) ==
    [Idle EXCEPT !.op = "sweep", !.processed = TRUE, !.summary = out.summary,
                 !.raised = out.raised]

Finish(out, entry(_)) == Done(out, entry(out))

\* the bodies whose three ids are all present
Complete(body) ==
    Truthy(body.inventory_item_id) /\ Truthy(body.variant_id) /\ Truthy(body.product_id)

\* POST /webhooks/inventory-levels
HandleInventoryWebhook ==
    /\ last.op = "none"
    /\ \E request \in Requests, secret \in Secrets :
        \E env \in (IF Complete(request.body)
                    THEN ProcessEnvs(World, request.body.inventory_item_id[1],
                                     ProcessorCalls \cup ReconcilerCalls, Levels)
                    ELSE {QuietEnv}) :
            LET entry(out) ==
                    Answered("webhook",
                             IF out.processed THEN request.body.product_id[1] ELSE 0, out)
            IN /\ Finish(handle_inventory_webhook(World, request, secret, env), entry)
               /\ last'.processed \/ env = QuietEnv

\* POST /api/products/check
CheckProduct ==
    /\ last.op = "none"
    /\ \E req \in CheckRequests :
        \E env \in ProcessEnvs(World, req.inventory_item_id, {"get_product"}, Levels) :
            LET entry(out) == Answered("check", req.product_id, out)
            IN Finish(check_product(World, req, env), entry)

\* a caller of process_inventory_change that passes the quantity it was told
ProcessInventoryChange ==
    /\ last.op = "none"
    /\ \E item \in Items, hint \in Hints \ {NoneV} :
        \E env \in ProcessEnvs(World, item, {"upsert"}, {0}) :
            LET entry(out) == Returned(Variants[item].product, hint, out)
            IN Finish(process_inventory_change(World, item, Variants[item].variant,
                                               Variants[item].product, hint, env),
                      entry)

\* what fails in one sweep: one call, one row's resolution, one row's upsert,
\* one row of another product, a malformed row met first or second, or nothing
SweepFailures(ids) ==
    LET Quiet == [fail |-> {}, badResolve |-> {}, badUpsert |-> {}, otherBad |-> 0,
                  malformedAt |-> -1]
    IN {[Quiet EXCEPT !.fail = f] : f \in Failures(ReconcilerCalls \cup {"log_insert"})}
       \cup {[Quiet EXCEPT !.badResolve = {i}] : i \in ids}
       \cup {[Quiet EXCEPT !.badUpsert = {i}] : i \in ids}
       \cup {[Quiet EXCEPT !.otherBad = 1]}
       \cup {[Quiet EXCEPT !.malformedAt = k] : k \in 0 .. 1}

SweepEnvs(w) ==
    {[location |-> TRUE, fail |-> f.fail, level |-> l, sweepDrop |-> sd,
      badResolve |-> f.badResolve, badUpsert |-> f.badUpsert, otherBad |-> f.otherBad,
      malformedAt |-> f.malformedAt, drop |-> d] :
        f \in SweepFailures(TrackedIds(w)),
        l \in Levels,
        sd \in (IF Cardinality(w.ledger) + w.otherRows <= BatchLimit THEN {{}}
                ELSE SUBSET TrackedIds(w)),
        d \in (IF Cardinality(w.ledger) + w.otherRows <= ViewLimit THEN {{}}
               ELSE SUBSET TrackedIds(w))}
    \cup {[location |-> FALSE, fail |-> {}, level |-> 0, sweepDrop |-> {},
           badResolve |-> {}, badUpsert |-> {}, otherBad |-> 0, malformedAt |-> -1,
           drop |-> {}]}

\* the periodic sweep, or POST /admin/reconcile
ReconcileDamagedInventory ==
    /\ last.op = "none"
    /\ \E env \in SweepEnvs(World) :
        LET entry(out) == [Swept(out) EXCEPT !.location = env.location,
                                             !.level = env.level]
        IN Finish(reconcile_damaged_inventory(World, BatchLimit, env), entry)

\* the invocation returns to its caller; the service takes the next one
Return ==
    /\ last.op # "none"
    /\ last' = Idle
    /\ UNCHANGED <<ledger, otherRows, catalog, published, redirects, nextRedirectId,
                   metafield>>

Next ==
    \/ Return
    \/ HandleInventoryWebhook
    \/ CheckProduct
    \/ ProcessInventoryChange
    \/ ReconcileDamagedInventory

Spec == Init /\ [][Next]_vars

(***************************************************************************)
(* The resolvers, applied to the inputs of a bounded set                   *)
(***************************************************************************)
ConditionValues == {<<"Light", "Damage">>, <<"Moderate", "Damage">>, <<"Heavy", "Damage">>,
                    <<"Hardcover">>}
OptionNames == {<<"Condition">>, <<"Damage", "level">>, <<"Format">>}
Titles == {<<"Default", "Title">>, <<"Heavy", "Damage">>}

\* the variant documents the platform can hand to the resolvers
VariantInputs ==
    LET options == {<<>>} \cup {<<[name |-> n, value |-> v]>> :
                                    n \in OptionNames, v \in ConditionValues}
    IN {[selectedOptions |-> o, title |-> t] : o \in options, t \in Titles}
       \cup {[selectedOptions |-> o, title |-> t, option1 |-> <<"Moderate", "Damage">>] :
                 o \in options, t \in Titles}

\* handles given to the canonical resolver
HandleInputs == {<<"book", "damaged">>, <<"atlas", "damaged">>, <<"book">>,
                 <<"book", "Damaged">>}

ResolverInit ==
    /\ ledger = {}
    /\ otherRows = 0
    /\ catalog \in SUBSET {1, 2}
    /\ published = [p \in Products |-> TRUE]
    /\ redirects \in {{},
                      {[id |-> 1, path |-> ProductPath(<<"book">>),
                        target |-> ProductPath(<<"other">>)]},
                      {[id |-> 1, path |-> ProductPath(<<"book", "damaged">>),
                        target |-> ProductPath(<<"book">>)]},
                      {[id |-> 1, path |-> ProductPath(<<"book", "damaged">>),
                        target |-> ProductPath(<<"book", "club">>)]}}
    /\ nextRedirectId = 2
    /\ metafield = [p \in Products |-> NoneV]
    /\ last = [op |-> "none"]

\* _extract_condition_from_variant and the sweep's condition loop on one variant
ResolveCondition ==
    /\ last.op = "none"
    /\ \E variant \in VariantInputs :
          last' = [op |-> "condition", variant |-> variant,
                   raw |-> extract_condition_from_variant(variant),
                   swept |-> sweep_condition(Get(variant, "selectedOptions", <<>>))]
    /\ UNCHANGED <<ledger, otherRows, catalog, published, redirects, nextRedirectId,
                   metafield>>

\* resolve_canonical_handle on one handle
ResolveCanonical ==
    /\ last.op = "none"
    /\ \E handle \in HandleInputs, okFind \in BOOLEAN, okGet \in BOOLEAN :
          LET answer(out) == [op |-> "canonical", handle |-> handle, okFind |-> okFind,
                              okGet |-> okGet, raised |-> out.raised, value |-> out.value]
          IN last' = answer(resolve_canonical_handle(World, handle, okFind, okGet))
    /\ UNCHANGED <<ledger, otherRows, catalog, published, redirects, nextRedirectId,
                   metafield>>

ResolverNext ==
    \/ ResolveCondition
    \/ ResolveCanonical

ResolverSpec == ResolverInit /\ [][ResolverNext]_vars

(***************************************************************************)
(* The duplicate check and the creation, on the stores of a bounded set    *)
(***************************************************************************)
CanonicalInputs == {<<"book">>, <<"Book">>, <<"atlas">>}
SeedInputs == {<<>>, <<[condition |-> "light", quantity |-> 2, price_override |-> Some(50)]>>,
               <<[condition |-> "Heavy", quantity |-> 1, price_override |-> NoneV]>>}
CreateRequests ==
    {[canonical_handle |-> c, variants |-> v, dry_run |-> d] :
        c \in CanonicalInputs, v \in SeedInputs, d \in BOOLEAN}

CreationCalls == {"find_canonical", "find_damaged", "find_pair", "inventory_view",
                  "post_product", "inventory_set", "creation_log"}
CreationEnvs ==
    {[fail |-> f, scan |-> s, location |-> l] :
        f \in Failures(CreationCalls), s \in BOOLEAN, l \in BOOLEAN}

\* a ledger row left by an earlier damaged product
LeftoverRow ==
    [inventory_item_id |-> 11, product_id |-> 1, variant_id |-> 101,
     handle |-> <<"book", "damaged">>, condition |-> NoneV, condition_raw |-> NoneV,
     condition_key |-> NoneV, available |-> 0, source |-> "webhook"]

CreationInit ==
    /\ ledger \in {{}, {LeftoverRow}}
    /\ otherRows = 0
    /\ catalog \in SUBSET Products
    /\ published = [p \in Products |-> TRUE]
    /\ redirects = {}
    /\ nextRedirectId = 1
    /\ metafield = [p \in Products |-> NoneV]
    /\ last = [op |-> "none"]

\* check_damaged_duplicate for the damaged handle derived from the canonical one
CheckDamagedDuplicate ==
    /\ last.op = "none"
    /\ \E canonical_handle \in CanonicalInputs, env \in CreationEnvs :
          last' = [op |-> "duplicate", canonical |-> canonical_handle, env |-> env,
                   report |-> check_damaged_duplicate(
                                  World, canonical_handle,
                                  Lower(canonical_handle) \o <<"damaged">>, env)]
    /\ UNCHANGED <<ledger, otherRows, catalog, published, redirects, nextRedirectId,
                   metafield>>

\* create_damaged_product_with_duplicate_check for one request; conflict is
\* what the duplicate check says of the store the request finds
CreateDamagedProduct ==
    /\ last.op = "none"
    /\ \E data \in CreateRequests, env \in CreationEnvs :
          LET entry(out) ==
                  [op |-> "create", data |-> data, env |-> env,
                   conflict |-> check_damaged_duplicate(
                                    World, data.canonical_handle,
                                    Lower(data.canonical_handle) \o <<"damaged">>,
                                    env).status # "ok",
                   raised |-> out.raised, result |-> out.result, trace |-> out.w.trace]
              done(out) == /\ out.valid
                           /\ Commit(out.w)
                           /\ last' = entry(out)
          IN done(create_damaged_product_with_duplicate_check(World, data, env))

\* the batches of POST /admin/bulk-create: up to MaxEntries entries
BulkEntries ==
    LET Entry(c) == [canonical_handle |-> c, damaged_handle |-> Lower(c) \o <<"damaged">>]
    IN UNION {[1 .. n -> {Entry(c) : c \in CanonicalInputs}] : n \in 0 .. MaxEntries}

\* POST /admin/bulk-create
BulkCreate ==
    /\ last.op = "none"
    /\ \E entries \in BulkEntries, env \in CreationEnvs :
          LET done(out) ==
                  /\ out.valid
                  /\ Commit(out.w)
                  /\ last' = [op |-> "bulk", entries |-> entries, env |-> env,
                              raised |-> out.raised, status |-> out.status,
                              body |-> out.body, trace |-> out.w.trace]
          IN done(bulk_create(World, entries, env))

CreationNext ==
    \/ CheckDamagedDuplicate
    \/ CreateDamagedProduct
    \/ BulkCreate

CreationSpec == CreationInit /\ [][CreationNext]_vars

(***************************************************************************)
(* ShopifyClient._request, one attempt at a time                           *)
(***************************************************************************)
\* int(text) of a header value: the decimal texts the platform sends
ParseInt(text) ==
    CASE text = "1" -> Some(1)
      [] text = "3" -> Some(3)
      [] OTHER -> NoneV

\* what the platform answers to one attempt: a success, a rate limit with or
\* without a Retry-After header, an error status, or no answer at all
Responses ==
    {[kind |-> "ok", status |-> 200, headers |-> EmptyDict],
     [kind |-> "status", status |-> 500, headers |-> EmptyDict],
     [kind |-> "transport", status |-> 0, headers |-> EmptyDict],
     [kind |-> "status", status |-> 429, headers |-> EmptyDict]}
    \cup {[kind |-> "status", status |-> 429, headers |-> [RetryAfter |-> t]] :
             t \in {"1", "3", "2.0"}}

Methods == {"GET", "POST", "PUT", "DELETE"}

Pending(method) ==
    [op |-> "request", method |-> method, attempt |-> 0, history |-> <<>>,
     slept |-> <<>>, outcome |-> "pending", result |-> EmptyDict]

RequestInit ==
    /\ ledger = {}
    /\ otherRows = 0
    /\ catalog = {1, 2}
    /\ published = [p \in Products |-> TRUE]
    /\ redirects = {}
    /\ nextRedirectId = 1
    /\ metafield = [p \in Products |-> NoneV]
    /\ \E method \in Methods : last = Pending(method)

\* one pass of the loop body (lines 146-173) on the response the attempt gets
request_attempt(state, response) ==
    LET tried == [state EXCEPT !.attempt = @ + 1, !.history = Append(@, response)]
        retry_after == ParseInt(Get(response.headers, "RetryAfter", "1"))
    IN IF response.kind = "transport" THEN tried
       ELSE IF response.status = 429
       THEN IF retry_after = NoneV THEN [tried EXCEPT !.outcome = "raised"]
            ELSE [tried EXCEPT !.slept = Append(@, retry_after[1])]
       ELSE IF response.status >= 400 THEN [tried EXCEPT !.outcome = "raised"]
       ELSE [tried EXCEPT !.outcome = "returned",
                          !.result = [status |-> response.status,
                                      headers |-> response.headers]]

\* an attempt of the loop
SendRequest ==
    /\ last.op = "request"
    /\ last.outcome = "pending"
    /\ last.attempt < RetryAttempts
    /\ \E response \in Responses : last' = request_attempt(last, response)
    /\ UNCHANGED <<ledger, otherRows, catalog, published, redirects, nextRedirectId,
                   metafield>>

\* the raise after the loop (line 175)
RaiseExceeded ==
    /\ last.op = "request"
    /\ last.outcome = "pending"
    /\ last.attempt >= RetryAttempts
    /\ last' = [last EXCEPT !.outcome = "raised"]
    /\ UNCHANGED <<ledger, otherRows, catalog, published, redirects, nextRedirectId,
                   metafield>>

RequestNext ==
    \/ SendRequest
    \/ RaiseExceeded

RequestSpec == RequestInit /\ [][RequestNext]_vars

(***************************************************************************)
(* The two operations that write an audit log, on the same stores          *)
(***************************************************************************)
AuditNext ==
    \/ CreateDamagedProduct
    \/ ReconcileDamagedInventory

AuditSpec == CreationInit /\ [][AuditNext]_vars

(***************************************************************************)
(* Invocations in flight together: each one runs from one await to a later *)
(* one in a step, and the platform serves the requests in the order of the *)
(* steps.  last.procs holds the position of every invocation.              *)
(***************************************************************************)
\* lines 23-26 of apply_product_rules_with_product: the aggregate over the view
any_in_stock(rows_resp, damaged_handle) ==
    \E r \in {x \in rows_resp.data : Lower(x.handle) = Lower(damaged_handle)} :
        r.available > 0

\* the items of the damaged product the invocations touch
RaceItems == {i \in Items : Variants[i].product = 1}

InFlight == 1 .. MaxInFlight

IdleProc == [pc |-> "idle", kind |-> "", product |-> 0, handle |-> <<>>,
             canonical |-> <<>>, in_stock |-> FALSE, existing |-> NoneV]

\* an invocation that has read the view and is about to set the publish flag
Deciding(w, kind, product_id, damaged_handle, canonical_handle) ==
    [IdleProc EXCEPT !.pc = "put", !.kind = kind, !.product = product_id,
                     !.handle = damaged_handle, !.canonical = canonical_handle,
                     !.in_stock = any_in_stock(list_view(w, ViewLimit, NoneV, {}, TRUE),
                                               damaged_handle)]

Running(procs) == {q \in DOMAIN procs : procs[q].pc \notin {"idle", "done"}}

RaceInit ==
    /\ ledger = {}
    /\ otherRows = 0
    /\ catalog = {1, 2}
    /\ published = [p \in Products |-> TRUE]
    /\ redirects = {}
    /\ nextRedirectId = 1
    /\ metafield = [p \in Products |-> NoneV]
    /\ last = [op |-> "race", procs |-> [p \in InFlight |-> IdleProc], overlap |-> FALSE]

\* an invocation begins while others may be in flight
Begin(p, proc) ==
    last' = [last EXCEPT !.procs[p] = proc,
                         !.overlap = @ \/ Running(last.procs) # {}]

\* process_inventory_change, lines 63-157, and the view read of the rules
\* (lines 22-26), which no await separates from the upsert
StartWebhook(p) ==
    /\ last.procs[p].pc = "idle"
    /\ \E item \in RaceItems, level \in Levels :
          LET started(out) ==
                  /\ WithinBounds(out.w)
                  /\ Commit(out.w)
                  /\ Begin(p, IF out.raised \/ out.result.skipped # ""
                              THEN [IdleProc EXCEPT !.pc = "done", !.kind = "webhook"]
                              ELSE Deciding(out.w, "webhook", Variants[item].product,
                                            out.result.handle,
                                            get_new_book_handle_from_used(
                                                out.result.handle)))
          IN started(process_inventory_steps(World, item, Variants[item].variant,
                                             Variants[item].product, NoneV,
                                             [QuietEnv EXCEPT !.level = level],
                                             FALSE))

\* reconcile_damaged_inventory, lines 21-85, and the view read of the rules
\* for the touched pair (the ledger holds the rows of one product)
StartSweep(p) ==
    /\ last.procs[p].pc = "idle"
    /\ \E level \in Levels :
          LET begun(walked, pairs) ==
                  /\ Commit(walked.w)
                  /\ Begin(p, IF pairs = <<>> \/ ~EndsWithDamaged(pairs[1][2])
                              THEN [IdleProc EXCEPT !.pc = "done", !.kind = "sweep"]
                              ELSE Deciding(walked.w, "sweep", pairs[1][1], pairs[1][2],
                                            StripDamaged(pairs[1][2])))
              swept(walked) == begun(walked, TouchedInOrder(walked.touched))
          IN swept(reconcile_rows(
                       [w |-> World, updated |-> 0, skipped |-> 0, touched |-> {},
                        walked |-> 0, raised |-> FALSE],
                       ledger, Ascending(TrackedIds(World)),
                       [level |-> level, badResolve |-> {}, badUpsert |-> {},
                        malformedAt |-> -1]))

\* await set_product_publish_status (lines 29 and 43)
SetPublishStatus(p) ==
    /\ last.procs[p].pc = "put"
    /\ Commit(set_product_publish_status(World, last.procs[p].product,
                                         last.procs[p].in_stock, TRUE).w)
    /\ last' = [last EXCEPT !.procs[p].pc = "find"]

\* await find_redirect_by_path (lines 30 and 44)
FindRedirect(p) ==
    /\ last.procs[p].pc = "find"
    /\ last' = [last EXCEPT !.procs[p].pc = "move",
                            !.procs[p].existing =
                                find_redirect_by_path(World, last.procs[p].handle, TRUE)]
    /\ UNCHANGED <<ledger, otherRows, catalog, published, redirects, nextRedirectId,
                   metafield>>

\* the deletion or creation of the redirect and the canonical note (lines
\* 31-58), after which the invocation returns
MoveRedirect(p) ==
    /\ last.procs[p].pc = "move"
    /\ LET proc == last.procs[p]
           moved(w) ==
               /\ WithinBounds(w)
               /\ Commit(update_used_book_canonicals(w, [handle |-> proc.handle],
                                                     proc.canonical, TRUE).w)
       IN moved(IF proc.in_stock
                THEN remove_redirect_if_present(World, proc.handle, proc.existing, TRUE)
                ELSE create_redirect_if_missing(World, proc.handle, proc.canonical,
                                                proc.existing, TRUE))
    /\ last' = [last EXCEPT !.procs[p].pc = "done"]

RaceNext ==
    \E p \in InFlight :
        \/ StartWebhook(p)
        \/ StartSweep(p)
        \/ SetPublishStatus(p)
        \/ FindRedirect(p)
        \/ MoveRedirect(p)

RaceSpec == RaceInit /\ [][RaceNext]_vars

(***************************************************************************)
(* Creation requests in flight together: a request runs its duplicate      *)
(* check in one step and its creation in a later one                       *)
(***************************************************************************)
\* the requests in flight name one canonical product, in either spelling
RaceRequests == {d \in CreateRequests : Lower(d.canonical_handle) = <<"book">>}

\* no call fails
RaceEnvs == {e \in CreationEnvs : e.fail = {}}

IdleRequest == [pc |-> "idle", data |-> [canonical_handle |-> <<>>, variants |-> <<>>,
                                         dry_run |-> FALSE],
                status |-> ""]

\* the damaged products the effects of a step created, with their canonical
CreatedBy(effects, canonical_handle) ==
    {[canonical |-> Lower(canonical_handle), product |-> effects[i].product] :
        i \in {j \in DOMAIN effects : effects[j].call = "post_product" /\ effects[j].ok}}

CreateRaceInit ==
    /\ ledger = {}
    /\ otherRows = 0
    /\ catalog \in {{2}, {2, 5}, {2, 4}, {2, 3}}
    /\ published = [p \in Products |-> TRUE]
    /\ redirects = {}
    /\ nextRedirectId = 1
    /\ metafield = [p \in Products |-> NoneV]
    /\ last = [op |-> "create-race", procs |-> [p \in InFlight |-> IdleRequest],
               created |-> {}, overlap |-> FALSE]

\* steps 1 to 3 (lines 262-322): the duplicate check, and the return of a
\* conflict or of a dry run
CheckRequest(p) ==
    /\ last.procs[p].pc = "idle"
    /\ \E data \in RaceRequests, env \in RaceEnvs :
          LET checked(out) ==
                  /\ out.valid
                  /\ Commit(out.w)
                  /\ last' = [last EXCEPT
                                 !.procs[p] =
                                     [pc |-> IF out.result.status = "pending"
                                             THEN "create" ELSE "done",
                                      data |-> data,
                                      status |-> out.result.status],
                                 !.overlap = @ \/ \E q \in InFlight :
                                                     last.procs[q].pc = "create"]
          IN checked(create_after_check(World, data, env, FALSE))

\* steps 4 to 8 (lines 328-398): create_damaged_pair, the quantities, the log
CreateRequest(p) ==
    /\ last.procs[p].pc = "create"
    /\ \E env \in RaceEnvs :
          LET created(out) ==
                  /\ out.valid
                  /\ Commit(out.w)
                  /\ last' = [last EXCEPT
                                 !.procs[p].pc = "done",
                                 !.procs[p].status = out.result.status,
                                 !.created = @ \cup CreatedBy(out.w.trace,
                                                 last.procs[p].data.canonical_handle)]
          IN created(create_and_report(World, last.procs[p].data, env))

CreateRaceNext ==
    \E p \in InFlight :
        \/ CheckRequest(p)
        \/ CreateRequest(p)

CreateRaceSpec == CreateRaceInit /\ [][CreateRaceNext]_vars

(***************************************************************************)
(* Properties                                                              *)
(***************************************************************************)
\* the positions of a sequence of effects that hold a call of one kind
Calls(effects, kind) == {i \in DOMAIN effects : effects[i].call = kind}

\* the redirects whose source is the page of a handle
RedirectsFrom(h) == {r \in redirects : r.path = ProductPath(h)}

\* the invocations that run process_inventory_change
Processing == {"webhook", "check", "call"}

\* C1: every Reconciler invocation that read the ledger issues the publish
\* mutation, with value true exactly when some ledger row of its handle has
\* available > 0 at that moment, whatever the number of other rows.
C1_PublishIffAnyRowInStock ==
    \A k \in DOMAIN last.recons :
        LET rec == last.recons[k]
        IN rec.listed =>
              /\ Calls(rec.effects, "put_publish") # {}
              /\ \A i \in Calls(rec.effects, "put_publish") :
                    rec.effects[i].value = (\E r \in rec.rows : r.available > 0)

\* C2 (the PUBLISHED state): after a Reconciler invocation in which no call
\* failed and which published the product, no redirect whose source is the
\* damaged handle exists: any redirect that existed before has been removed.
C2_PublishedWithoutRedirect ==
    \A k \in DOMAIN last.recons :
        LET rec == last.recons[k]
        IN (/\ rec.clean
            /\ \E i \in Calls(rec.effects, "put_publish") : rec.effects[i].value)
           => RedirectsFrom(rec.handle) = {}

\* C3: a Reconciler invocation for a handle that already has its redirect
\* issues no redirect write: the publish-flag set is the only repeated write.
C3_NoRepeatedRedirectWrite ==
    \A k \in DOMAIN last.recons :
        LET rec == last.recons[k]
        IN rec.before # {} => Calls(rec.effects, "post_redirect") = {}

\* C4: when the redirect creation or deletion of a Reconciler invocation
\* fails, the publish flag has been set to the target value before, a warning
\* goes to the notification service after, and the caller sees no error; the
\* deletion branch, given a redirect whose DELETE fails, warns and returns
\* with the redirects as they were.
C4_RedirectFailureNotFatal ==
    /\ \A k \in DOMAIN last.recons :
          LET rec == last.recons[k]
              e == rec.effects
          IN \A i \in Calls(e, "post_redirect") \cup Calls(e, "delete_redirect") :
                ~e[i].ok =>
                   /\ ~last.raised
                   /\ \E j \in 1..(i - 1) :
                         /\ e[j].call = "put_publish"
                         /\ e[j].ok
                         /\ published[rec.product_id] = e[j].value
                   /\ \E j \in (i + 1)..Len(e) :
                         e[j].call = "notify" /\ e[j].level = "warning"
    /\ \A r \in redirects :
          LET left == remove_redirect_if_present(World, r.path[2], Some(r), FALSE)
          IN /\ left.redirects = redirects
             /\ Len(left.trace) = 2
             /\ left.trace[1].call = "delete_redirect"
             /\ left.trace[2].call = "notify" /\ left.trace[2].level = "warning"

\* a Reconciler invocation whose redirect creation failed
C4_Witness ==
    \E k \in DOMAIN last.recons :
        \E i \in Calls(last.recons[k].effects, "post_redirect") :
            ~last.recons[k].effects[i].ok

\* C5: process_inventory_change for a product whose handle does not end in
\* "-damaged" leaves the ledger, the publish flags, the redirects and the
\* metafields as they were and issues no write; when it returns, the outcome
\* is skipped = "not_damaged".
C5_NotDamagedIsSkipped ==
    [][(/\ last'.op \in Processing
        /\ last'.processed
        /\ last'.product \in catalog
        /\ ~(Len(Catalog[last'.product]) >= 2
             /\ Catalog[last'.product][Len(Catalog[last'.product])] = "damaged"))
       => /\ UNCHANGED <<ledger, published, redirects, metafield>>
          /\ \A i \in DOMAIN last'.trace : last'.trace[i].call = "notify_critical_error"
          /\ ~last'.raised => /\ last'.result.skipped = "not_damaged"
                              /\ last'.trace = <<>>]_vars

\* the canonical product was processed and skipped while the ledger held rows
C5_Witness ==
    /\ last.op \in Processing
    /\ last.product = 2
    /\ last.result.skipped = "not_damaged"
    /\ ledger # {}

\* C6: when a step of process_inventory_change raises and no sub-step handles
\* it, the error is reported once to the notification service with the product
\* id, as the last thing done, and the caller gets the error and no outcome;
\* an invocation that returns has reported no error.
C6_ErrorReportedOnceAndRaised ==
    (last.op \in Processing /\ last.processed) =>
        LET reports == Calls(last.trace, "notify_critical_error")
        IN /\ last.raised =>
                 /\ reports = {Len(last.trace)}
                 /\ last.trace[Len(last.trace)].productId = last.product
                 /\ last.result = NoResult
           /\ ~last.raised => reports = {}
           /\ \A i \in Calls(last.trace, "upsert") : ~last.trace[i].ok => last.raised
           /\ (last.op # "call" /\ last.raised) => last.status = 500

\* the ledger write of an invocation failed and the invocation raised
C6_Witness ==
    /\ last.op \in Processing
    /\ last.raised
    /\ \E i \in Calls(last.trace, "upsert") : ~last.trace[i].ok

\* C7: a webhook delivery whose signature verified and whose payload was
\* processed is answered 2xx, whether or not the processing raised.
C7_VerifiedDeliveryAcknowledged ==
    (last.op = "webhook" /\ last.verified /\ last.processed) => last.status \in 200..299

\* C8: process_inventory_change runs for an HTTP request only after the
\* request's signature has been verified.
C8_ProcessedOnlyIfVerified ==
    (last.op \in {"webhook", "check"} /\ last.processed) => last.verified

\* rows a caller can ask the ledger to store
ValidRows ==
    {[inventory_item_id |-> i,
      product_id |-> Variants[i].product,
      variant_id |-> Variants[i].variant,
      handle |-> Catalog[Variants[i].product],
      condition |-> NoneV,
      condition_raw |-> NoneV,
      condition_key |-> c,
      available |-> a,
      source |-> "webhook"] : i \in Items, a \in {0, 2}, c \in {NoneV, Some(<<"light">>)}}

C10_AvailableNonNegative ==
    \A r \in ledger : r.available >= 0

\* the key the condition resolver is to give for an option value
NormalizedKey(value) ==
    CASE value = <<"Light", "Damage">> -> Some(<<"light">>)
      [] value = <<"Moderate", "Damage">> -> Some(<<"moderate">>)
      [] value = <<"Heavy", "Damage">> -> Some(<<"heavy">>)
      [] OTHER -> NoneV

\* C11: a Condition option "Light Damage", "Moderate Damage" or "Heavy Damage"
\* resolves to that raw value with the key light, moderate or heavy, the key
\* written to the ledger; a variant without a condition option and without
\* "damage" in its option names, values and title resolves to (null, null).
C11_ConditionNormalized ==
    last.op = "condition" =>
        LET opts == last.variant.selectedOptions
            plain == /\ \A i \in DOMAIN opts :
                           /\ Lower(opts[i].name) # <<"condition">>
                           /\ ~ContainsDamage(opts[i].name)
                           /\ ~ContainsDamage(opts[i].value)
                     /\ ~ContainsDamage(last.variant.title)
                     /\ "option1" \notin DOMAIN last.variant
        IN /\ \A i \in DOMAIN opts :
                 (opts[i].name = <<"Condition">> /\ NormalizedKey(opts[i].value) # NoneV)
                 => /\ last.raw = Some(opts[i].value)
                    /\ last.swept.raw = Some(opts[i].value)
                    /\ last.swept.key = NormalizedKey(opts[i].value)
           /\ plain => /\ last.raw = NoneV
                       /\ last.swept = [raw |-> NoneV, key |-> NoneV]

\* C12: for a handle b + "-damaged" with no redirect from b, the canonical
\* resolver returns b, whether or not a product exists at b and whether or not
\* the gateway lookups fail.
C12_CanonicalIsStripped ==
    (/\ last.op = "canonical"
     /\ Len(last.handle) >= 2
     /\ last.handle[Len(last.handle)] = "damaged"
     /\ RedirectsFrom(SubSeq(last.handle, 1, Len(last.handle) - 1)) = {})
    => /\ ~last.raised
       /\ last.value = SubSeq(last.handle, 1, Len(last.handle) - 1)

\* a damaged handle was resolved while both gateway lookups failed
C12_Witness ==
    /\ last.op = "canonical"
    /\ last.handle = <<"book", "damaged">>
    /\ ~last.okFind /\ ~last.okGet
    /\ 2 \notin catalog
    /\ last.value = <<"book">>

\* the effects of the sweep that has just run
SweepRead == {last.trace[i] : i \in Calls(last.trace, "select_inventory")}
SweepAsked(item, ok) ==
    {i \in Calls(last.trace, "graphql") :
        last.trace[i].item = item /\ last.trace[i].ok = ok}
SweepUpserts(item, ok) ==
    {i \in Calls(last.trace, "upsert") :
        /\ last.trace[i].item = item
        /\ last.trace[i].source = "reconcile"
        /\ last.trace[i].ok = ok}

\* C13: a sweep does not raise on a failure confined to one row (resolution
\* raising, a malformed row, the upsert raising): that row counts as skipped
\* and every other row of the batch is still resolved and upserted, so that
\* inspected = updated + skipped.
C13_RowFailureIsSkipped ==
    (last.op = "sweep" /\ last.summary.note = NoneV) =>
        /\ ~last.raised
        /\ last.summary.inspected = last.summary.updated + last.summary.skipped
        /\ \A read \in SweepRead :
              /\ last.summary.inspected = Cardinality(read.items) + read.others
              /\ \A item \in read.items :
                    /\ Cardinality(SweepAsked(item, TRUE) \cup SweepAsked(item, FALSE)) = 1
                    /\ SweepAsked(item, TRUE) # {}
                       => Cardinality(SweepUpserts(item, TRUE)
                                      \cup SweepUpserts(item, FALSE)) = 1
              /\ last.summary.skipped >=
                    Cardinality({item \in read.items :
                                    \/ SweepAsked(item, FALSE) # {}
                                    \/ SweepUpserts(item, FALSE) # {}})

\* C14: within one sweep the Reconciler is invoked only after every row of
\* the batch has been handled, and exactly once for each (product_id, handle)
\* pair that has a successfully upserted row and a handle ending in
\* "-damaged"; it is not invoked for any other pair.
C14_ReconcilerOncePerTouchedPair ==
    last.op = "sweep" =>
        LET rowCalls == Calls(last.trace, "graphql") \cup Calls(last.trace, "upsert")
            upserted == {<<last.trace[i].product, last.trace[i].handle>> :
                            i \in {j \in Calls(last.trace, "upsert") : last.trace[j].ok}}
            invoked(pair) == {k \in DOMAIN last.recons :
                                 <<last.recons[k].product_id, last.recons[k].handle>> = pair}
        IN /\ \A k \in DOMAIN last.recons :
                 /\ \A i \in rowCalls : i <= last.recons[k].at
                 /\ <<last.recons[k].product_id, last.recons[k].handle>> \in upserted
                 /\ EndsWithDamaged(last.recons[k].handle)
           /\ \A pair \in upserted :
                 Cardinality(invoked(pair)) = IF EndsWithDamaged(pair[2]) THEN 1 ELSE 0

\* C15: a sweep started without a configured location id returns the summary
\* {inspected: 0, updated: 0, skipped: 0} with a note naming the missing
\* configuration; it does not raise, reads no ledger row, calls no gateway,
\* upserts nothing and invokes no Reconciler.
C15_MissingLocationIsNoOp ==
    (last.op = "sweep" /\ ~last.location) =>
        /\ ~last.raised
        /\ last.summary = [inspected |-> 0, updated |-> 0, skipped |-> 0,
                           note |-> Some("missing SHOPIFY_LOCATION_ID")]
        /\ Calls(last.trace, "select_inventory") = {}
        /\ Calls(last.trace, "graphql") = {}
        /\ Calls(last.trace, "upsert") = {}
        /\ last.recons = <<>>

\* a sweep without a location id ran over a ledger that holds a row in stock
C15_Witness ==
    /\ last.op = "sweep"
    /\ ~last.location
    /\ \E r \in ledger : r.available > 0

\* C16: every run of the sweep appends exactly one entry to the reconcile
\* log, and the entry's inspected, updated and skipped counts are those of
\* the summary the run returns.
C16_OneLogEntryPerSweep ==
    last.op = "sweep" =>
        LET written == {i \in Calls(last.trace, "insert_reconcile_log") : last.trace[i].ok}
        IN /\ Cardinality(written) = 1
           /\ \A i \in written :
                 /\ last.trace[i].entry.inspected = last.summary.inspected
                 /\ last.trace[i].entry.updated = last.summary.updated
                 /\ last.trace[i].entry.skipped = last.summary.skipped

\* C17: after a sweep that skipped no row, every ledger row of its batch has
\* the availability the gateway reports for its inventory item, and every
\* touched damaged product is published exactly when a row of its handle is
\* in stock and has a redirect exactly when none is.
C17_SweepCorrectsDrift ==
    (/\ last.op = "sweep"
     /\ last.location
     /\ ~last.raised
     /\ last.summary.skipped = 0)
    => /\ \A read \in SweepRead :
             \A r \in ledger :
                 r.inventory_item_id \in read.items => r.available = last.level
       /\ \A k \in DOMAIN last.recons :
             LET inStock == \E r \in ledger : /\ r.handle = last.recons[k].handle
                                              /\ r.available > 0
             IN /\ published[last.recons[k].product_id] = inStock
                /\ (RedirectsFrom(last.recons[k].handle) = {}) = inStock

\* the store of the duplicate check: a product at the handle or at one of its
\* auto-suffixes, a product at the damaged handle, a row naming it
ProductAt(h) == \E p \in catalog : Catalog[p] = h
CanonicalExists(h) ==
    ProductAt(h) \/ ProductAt(h \o <<"1">>) \/ ProductAt(h \o <<"2">>)
    \/ ProductAt(h \o <<"3">>)
RowsNaming(h) == {r \in ledger : HandleContains(r.handle, h)}

\* C18: the duplicate check answers safe_to_create = true exactly when the
\* canonical product exists, no product exists at canonical + "-damaged" and
\* no ledger row has a handle containing the damaged handle; with any
\* conflict flag set, its status is "conflict" and safe_to_create is false.
C18_SafeIffNoConflict ==
    last.op = "duplicate" =>
        LET h == Lower(last.canonical)
        IN /\ last.report.safe_to_create
                = (/\ CanonicalExists(h)
                   /\ ~ProductAt(h \o <<"damaged">>)
                   /\ RowsNaming(h \o <<"damaged">>) = {})
           /\ (\/ last.report.canonical_missing
               \/ last.report.damaged_exists
               \/ last.report.inventory_present)
              => /\ last.report.status = "conflict"
                 /\ ~last.report.safe_to_create

\* C19: when no product exists at h, h-1, h-2 and h-3, the duplicate check
\* sets canonical_missing and answers safe_to_create = false, whatever other
\* products the store holds.
C19_CanonicalMissing ==
    (last.op = "duplicate" /\ ~CanonicalExists(Lower(last.canonical)))
    => /\ last.report.canonical_missing
       /\ ~last.report.safe_to_create

\* C20: when the duplicate check reports a conflict, the creation returns
\* status "error" without a product id, posts no product and sets no
\* inventory, and its attempt is recorded in the creation log.
C20_ConflictIsRecorded ==
    (last.op = "create" /\ last.conflict) =>
        /\ ~last.raised
        /\ last.result.status = "error"
        /\ last.result.damaged_product_id = NoneV
        /\ Calls(last.trace, "post_product") = {}
        /\ Calls(last.trace, "inventory_set") = {}
        /\ \E i \in Calls(last.trace, "insert_creation_log") :
              last.trace[i].status = "error" /\ last.trace[i].ok

\* C20, amended: on a conflict the creation returns status "error" without a
\* product id, posts no product and sets no inventory, and issues exactly
\* one insert of the attempt, with status "error", into the creation log;
\* the insert is best-effort and its failure changes nothing else.
C20_ConflictIsLogged ==
    (last.op = "create" /\ last.conflict) =>
        /\ ~last.raised
        /\ last.result.status = "error"
        /\ last.result.damaged_product_id = NoneV
        /\ Calls(last.trace, "post_product") = {}
        /\ Calls(last.trace, "inventory_set") = {}
        /\ Cardinality(Calls(last.trace, "insert_creation_log")) = 1
        /\ \A i \in Calls(last.trace, "insert_creation_log") :
              last.trace[i].status = "error"

\* a creation met an existing damaged product, and its log insert failed
C20_Witness ==
    /\ last.op = "create"
    /\ last.conflict
    /\ ProductAt(<<"book", "damaged">>)
    /\ Lower(last.data.canonical_handle) = <<"book">>
    /\ ~last.data.dry_run
    /\ \E i \in Calls(last.trace, "insert_creation_log") : ~last.trace[i].ok

\* C21: a request with dry_run = true whose duplicate check passes gets the
\* status "dry-run", posts no product and sets no inventory, and its attempt
\* is recorded in the creation log.
C21_DryRunIsRecorded ==
    (last.op = "create" /\ ~last.conflict /\ last.data.dry_run) =>
        /\ ~last.raised
        /\ last.result.status = "dry-run"
        /\ last.result.damaged_product_id = NoneV
        /\ Calls(last.trace, "post_product") = {}
        /\ Calls(last.trace, "inventory_set") = {}
        /\ \E i \in Calls(last.trace, "insert_creation_log") :
              last.trace[i].status = "dry-run" /\ last.trace[i].ok

\* C21, amended: a dry-run request whose duplicate check passes gets the
\* status "dry-run", posts no product and sets no inventory, and issues
\* exactly one best-effort insert of the attempt, with status "dry-run" and
\* the dry_run flag, into the creation log.
C21_DryRunIsLogged ==
    (last.op = "create" /\ ~last.conflict /\ last.data.dry_run) =>
        /\ ~last.raised
        /\ last.result.status = "dry-run"
        /\ last.result.damaged_product_id = NoneV
        /\ Calls(last.trace, "post_product") = {}
        /\ Calls(last.trace, "inventory_set") = {}
        /\ Cardinality(Calls(last.trace, "insert_creation_log")) = 1
        /\ \A i \in Calls(last.trace, "insert_creation_log") :
              last.trace[i].status = "dry-run" /\ last.trace[i].dry_run

\* a dry run for a canonical product without a damaged companion, with
\* quantities asked for and a location configured
C21_Witness ==
    /\ last.op = "create"
    /\ ~last.conflict
    /\ last.data.dry_run
    /\ last.data.variants # <<>>
    /\ last.env.location
    /\ ProductAt(<<"book">>)
    /\ ~ProductAt(<<"book", "damaged">>)

\* the products the creation that has just run posted
Posted == {last.trace[i] : i \in {j \in Calls(last.trace, "post_product") : last.trace[j].ok}}

\* the sku of the canonical product of a handle: the product at the handle or
\* at its first auto-suffix
CanonicalSkus(h) ==
    LET at == {c \in {h, h \o <<"1">>, h \o <<"2">>, h \o <<"3">>} : ProductAt(c)}
    IN {<<"author", c>> : c \in at}

\* C22: every damaged product the creation posts has the handle canonical
\* handle + "-damaged" and exactly three variants, light, moderate and heavy in
\* that order, each with inventory management "shopify", policy "deny", the
\* canonical variant's sku and the barcode made of the canonical handle and
\* the condition key, whatever the request asks for.
C22_CreatedProductShape ==
    last.op = "create" =>
        \A post \in Posted :
            LET h == Lower(last.data.canonical_handle)
            IN /\ post.handle = h \o <<"damaged">>
               /\ Catalog[post.product] = h \o <<"damaged">>
               /\ Len(post.variants) = 3
               /\ \A i \in DOMAIN post.variants :
                     /\ post.variants[i].title = ConditionTitles[i]
                     /\ post.variants[i].inventory_management = "shopify"
                     /\ post.variants[i].inventory_policy = "deny"
                     /\ post.variants[i].sku \in CanonicalSkus(h)
                     /\ post.variants[i].barcode
                            = [joined |-> "_", words |-> h \o <<ConditionKeys[i]>>]

\* C23: each created variant is priced at canonical_price * (1 - discount),
\* in cents, the discount being the request's override for the condition if
\* there is one and else 15, 30 and 60 percent: 20.00 gives 17.00, 14.00 and
\* 8.00, and an override of one half for light gives 10.00.
C23_VariantPrices ==
    last.op = "create" =>
        \A post \in Posted :
            LET overridden == \E i \in DOMAIN last.data.variants :
                                  /\ LowerToken(last.data.variants[i].condition) = "light"
                                  /\ last.data.variants[i].price_override = Some(50)
            IN /\ post.variants[1].price = IF overridden THEN 1000 ELSE 1700
               /\ post.variants[2].price = 1400
               /\ post.variants[3].price = 800

\* what an invocation leaves apart from its audit write
WithoutLog(effects) ==
    SelectSeq(effects, LAMBDA e : e.call \notin {"insert_creation_log",
                                                 "insert_reconcile_log"})
Platform(w) == <<w.ledger, w.catalog, w.published, w.redirects, w.metafield>>

\* C24: an audit write that raises changes nothing of the operation it
\* belongs to: a creation whose creation-log write fails returns the result
\* and leaves the store and the effects of the same creation with a working
\* log, and a sweep whose reconcile-log write fails returns the same summary
\* and leaves the same store.
C24_AuditFailureChangesNothing ==
    [][/\ (last'.op = "create" /\ last'.env.fail = {"creation_log"}) =>
            LET quiet == create_damaged_product_with_duplicate_check(
                             World, last'.data, [last'.env EXCEPT !.fail = {}])
            IN /\ last'.raised = quiet.raised
               /\ last'.result = quiet.result
               /\ Platform(World)' = Platform(quiet.w)
               /\ WithoutLog(last'.trace) = WithoutLog(quiet.w.trace)
       /\ (/\ last'.op = "sweep"
           /\ \E i \in Calls(last'.trace, "insert_reconcile_log") : ~last'.trace[i].ok) =>
            LET quiet == reconcile_damaged_inventory(
                             World, BatchLimit,
                             [location |-> TRUE, fail |-> {}, level |-> last'.level,
                              sweepDrop |-> {}, badResolve |-> {}, badUpsert |-> {},
                              otherBad |-> 0, malformedAt |-> -1, drop |-> {}])
            IN /\ last'.raised = quiet.raised
               /\ last'.summary = quiet.summary
               /\ Platform(World)' = Platform(quiet.w)
               /\ WithoutLog(last'.trace) = WithoutLog(quiet.w.trace)]_vars

\* a creation posted a product and its creation-log write failed
C24_Witness ==
    /\ last.op = "create"
    /\ last.env.fail = {"creation_log"}
    /\ last.result.status = "created"
    /\ Posted # {}

\* the entries of the batch that has just run whose duplicate check, on the
\* store the batch found, reports a conflict
FailingEntries ==
    {i \in DOMAIN last.entries :
        check_damaged_duplicate(World, last.entries[i].canonical_handle,
                                last.entries[i].damaged_handle, last.env).status # "ok"}

\* C25: a bulk-create batch with an entry that fails the phase-1 duplicate
\* check creates no product for any entry, and its response is the conflict
\* report.
C25_BatchAbortsOnConflict ==
    (last.op = "bulk" /\ FailingEntries # {}) =>
        /\ Calls(last.trace, "post_product") = {}
        /\ ~last.raised
        /\ last.status = 409
        /\ "conflicts" \in DOMAIN last.body

\* C26: a bulk-create batch whose entries all pass the phase-1 duplicate
\* check runs phase 2 and answers with one result per entry.
C26_BatchCreatesEveryEntry ==
    (last.op = "bulk" /\ FailingEntries = {}) =>
        /\ ~last.raised
        /\ last.status = 200
        /\ "results" \in DOMAIN last.body
        /\ Len(last.body.results) = Len(last.entries)

\* C27: a gateway request makes at most three attempts; a rate-limit
\* response is followed by a wait of the interval its Retry-After header
\* names and, while attempts remain, by another attempt; the request raises
\* once the attempts are used up, and it returns a result only when its last
\* response was a success.
C27_RequestRetriesBounded ==
    last.op = "request" =>
        LET n == Len(last.history)
            limited == {i \in 1 .. n : last.history[i].kind = "status"
                                       /\ last.history[i].status = 429}
        IN /\ last.attempt <= 3
           /\ n = last.attempt
           /\ Len(last.slept) = Cardinality(limited)
           /\ last.outcome = "returned" => last.history[n].kind = "ok"
           /\ last.outcome = "raised"
              => \/ last.history[n].kind = "status" /\ last.history[n].status \notin {200, 429}
                 \/ n = 3 /\ last.history[n].kind # "ok"

\* the publish and redirect mutations of the invocation that has just run
Mutations ==
    Calls(last.trace, "put_publish") \cup Calls(last.trace, "post_redirect")
    \cup Calls(last.trace, "delete_redirect")

\* C28: in one process_inventory_change for a damaged product the ledger
\* upsert of the item comes before every publish or redirect mutation, and
\* the product is not unpublished while a ledger row of its handle has
\* available > 0.
C28_UpsertBeforeMutations ==
    (last.op \in Processing /\ last.processed) =>
        /\ \A i \in Mutations :
              \E j \in Calls(last.trace, "upsert") : last.trace[j].ok /\ j < i
        /\ \A i \in Calls(last.trace, "put_publish") :
              (last.trace[i].ok /\ ~last.trace[i].value)
              => ~\E r \in ledger : /\ r.product_id = last.trace[i].product
                                    /\ r.available > 0

\* C29: after process_inventory_change has resolved the variant of a damaged
\* item, whose Condition option the platform holds, and upserted its row,
\* the row carries the condition_raw and the condition_key that were
\* resolved, the handle, product and variant of the event and the source
\* "webhook".
C29_RowCarriesCondition ==
    (last.op \in Processing /\ last.processed) =>
        \A j \in Calls(last.trace, "upsert") :
            (/\ last.trace[j].ok
             /\ \E g \in Calls(last.trace, "graphql") :
                   last.trace[g].ok /\ last.trace[g].item = last.trace[j].item)
            => \E r \in ledger :
                  /\ r.inventory_item_id = last.trace[j].item
                  /\ r.product_id = Variants[r.inventory_item_id].product
                  /\ r.variant_id = Variants[r.inventory_item_id].variant
                  /\ r.handle = Catalog[r.product_id]
                  /\ r.available = last.trace[j].available
                  /\ r.source = "webhook"
                  /\ r.condition_raw # NoneV
                  /\ r.condition_key # NoneV

\* C30: every redirect created while an inventory change of a damaged handle
\* b + "-damaged" is processed goes from the page of that handle to the page
\* of the canonical handle b, never to the page of the damaged handle.
C30_RedirectTargetsCanonical ==
    (last.op \in Processing /\ last.processed) =>
        \A i \in Calls(last.trace, "post_redirect") :
            /\ EndsWithDamaged(last.trace[i].path)
            /\ last.trace[i].target = StripDamaged(last.trace[i].path)
            /\ last.trace[i].target # last.trace[i].path

\* C31: when a redirect leads from the page of the damaged handle to a page
\* under the products namespace and the redirect lookup goes through, the
\* canonical resolver returns the bare handle of that target, in preference
\* to the suffix-stripped handle.
C31_RedirectTargetPreferred ==
    (last.op = "canonical" /\ last.okFind) =>
        \A r \in redirects :
            (r.path = ProductPath(last.handle) /\ r.target[1] = "products")
            => /\ ~last.raised
               /\ last.value = r.target[2]

\* C32: every create_damaged_product_with_duplicate_check issues exactly one
\* insert into the creation log before it hands control back, on every path:
\* conflict, dry run, creation, and a creation that fails at the canonical
\* lookup or at the platform's create call; the insert of a run that returns
\* carries the status of the result.
C32_EveryAttemptIsLogged ==
    (last.op = "create") =>
        /\ Cardinality(Calls(last.trace, "insert_creation_log")) = 1
        /\ ~last.raised =>
              \A i \in Calls(last.trace, "insert_creation_log") :
                  last.trace[i].status = last.result.status

\* C33: when the platform holds no product of the id of an inventory event,
\* process_inventory_change does not raise and returns the skipped outcome
\* "product_not_found", without any write.
C33_AbsentProductIsSkipped ==
    (last.op \in Processing /\ last.processed /\ last.product \notin catalog) =>
        /\ ~last.raised
        /\ last.result.skipped = "product_not_found"
        /\ Mutations = {}

\* the invocations in flight have all returned, and one that ran the rules
\* for the product is among them
Quiescent(product) ==
    /\ Running(last.procs) = {}
    /\ \E p \in InFlight : last.procs[p].pc = "done" /\ last.procs[p].product = product

\* C34: once every process_inventory_change and sweep that touched a damaged
\* product has completed, with no call failing, the product is published
\* exactly if a ledger row of its handle has available > 0, however the
\* invocations interleaved.
C34_PublishMatchesLedgerAtRest ==
    \A product \in {1} :
        Quiescent(product) =>
            (published[product]
             <=> \E r \in ledger : r.handle = Catalog[product] /\ r.available > 0)

\* C35: in every reachable state of every interleaving at most one redirect
\* has the page of the damaged handle as its source.
C35_OneRedirectPerSource ==
    \A h \in {Catalog[p] : p \in Products} :
        Cardinality({r \in redirects : r.path = ProductPath(h)}) <= 1

\* C36: however the creation requests for one canonical handle follow or
\* overlap each other, at most one damaged companion product is created for
\* that canonical handle.
C36_OneCompanionPerCanonical ==
    \A c \in {x.canonical : x \in last.created} :
        Cardinality({x \in last.created : x.canonical = c}) <= 1

\* C37: check_damaged_duplicate does not answer safe_to_create = true when
\* the catalog lookup of the damaged handle or the ledger query failed, as it
\* does not when the lookup of the canonical handle failed.
C37_FailedLookupIsNotSafe ==
    (/\ last.op = "duplicate"
     /\ last.env.fail \cap {"find_canonical", "find_damaged", "inventory_view"} # {})
    => ~last.report.safe_to_create

\* C38: the action of the outcome process_inventory_change returns agrees
\* with the last publish mutation the invocation issued: "published" only
\* if it set the flag to true, "unpublished" only if it set it to false,
\* also when the changed item is out of stock and a sibling row is in stock.
C38_ActionMatchesLastPublish ==
    (last.op \in Processing /\ last.processed /\ ~last.raised
     /\ last.result.action # "") =>
        LET puts == Calls(last.trace, "put_publish")
        IN /\ puts # {}
           /\ \A i \in puts :
                 (\A j \in puts : j <= i)
                 => (last.result.action = "published") = last.trace[i].value

\* C39: the canonicalSet of the outcome process_inventory_change returns is
\* true only if the invocation resolved the canonical handle and wrote it to
\* the canonical_handle custom field of the product.
C39_CanonicalSetMeansWritten ==
    (last.op \in Processing /\ last.processed /\ ~last.raised
     /\ last.result.canonicalSet) =>
        /\ \E i \in Calls(last.trace, "set_metafield") :
              last.trace[i].product = last.product
        /\ metafield[last.product] # NoneV

\* the upserts of the sweep that has just run that went through: those of the
\* rows of tracked products, and the number of those of the other rows
SweepUpdates ==
    {i \in Calls(last.trace, "upsert") :
        last.trace[i].source = "reconcile" /\ last.trace[i].ok}
OtherUpdates ==
    IF Calls(last.trace, "upsert_others") = {} THEN 0
    ELSE last.trace[CHOOSE i \in Calls(last.trace, "upsert_others") : TRUE].updated

\* C40: in a sweep, each time a row has been handled inspected = updated +
\* skipped, with updated the number of upserts with source "reconcile" that
\* went through so far; the summary the sweep returns has inspected =
\* updated + skipped, inspected <= batch_limit and updated equal to the
\* number of the sweep's upserts with source "reconcile".
C40_SweepCountsAddUp ==
    last.op = "sweep" =>
        /\ \A i \in Calls(last.trace, "counted") :
              /\ last.trace[i].inspected = last.trace[i].updated + last.trace[i].skipped
              /\ last.trace[i].updated = Cardinality({j \in SweepUpdates : j < i})
        /\ ~last.raised =>
              /\ last.summary.inspected = last.summary.updated + last.summary.skipped
              /\ last.summary.inspected <= BatchLimit
              /\ last.summary.updated = Cardinality(SweepUpdates) + OtherUpdates

\* a sweep of a full batch that updated a row of a tracked product and
\* skipped another one
C40_Witness ==
    /\ last.op = "sweep"
    /\ ~last.raised
    /\ last.summary.inspected = BatchLimit
    /\ SweepUpdates # {}
    /\ \E i \in Calls(last.trace, "upsert") : ~last.trace[i].ok
    /\ last.summary.skipped > 0

====
